---------------------------- MODULE Spec2Model ----------------------------
(***************************************************************************)
(* Model of net/netfilter/ipvs/ip_vs_proto_tcp.c: the TCP protocol module  *)
(* of IPVS with the FullNAT / SYN-proxy extensions.                        *)
(*                                                                         *)
(* Conventions                                                             *)
(*   - a 32-bit host-order number is a pair <<hi, lo>> of 16-bit halves    *)
(*     (the model checker's integers are narrower than 2^32), all          *)
(*     arithmetic is modulo 2^32;                                          *)
(*   - a __be32 field (on the wire or stored in the flow) is a tuple of    *)
(*     four bytes, most significant first; ntohl/htonl convert;            *)
(*   - the bytes that follow the fixed 20-byte TCP header (options, then   *)
(*     payload) are the sequence skb.data, indexed from offset 0;          *)
(*   - cp.flags is the flag word as the set of the flags that are set.     *)
(***************************************************************************)
EXTENDS Integers, Sequences, FiniteSets, TLC

VARIABLES
    cp,               \* struct ip_vs_conn: the flow
    dest,             \* struct ip_vs_dest counters of the flow's backend
    tcp_state_table,  \* the module pointer: "tcp_states" or "tcp_states_dos"
    sysctl,           \* the sysctl_ip_vs_* configuration words
    skb_in,           \* the segment as it was handed to the last handler
    skb,              \* the segment as the last handler left it
    op,               \* the last operation: its name, return value, notes
    xmit,             \* the packets handed to the xmit functions, in order
    esmib,            \* ip_vs_esmib: the statistics counters the flow bumps
    tcp_apps,         \* the helper table: TCP_APP_TAB_SIZE lists of helpers
    appcnt,           \* ip_vs_protocol_tcp.appcnt: the count of helpers
    tcp_app_lock,     \* tcp_app_lock: the core that holds it, 0 when free
    cpu               \* per core: where its call in progress stands

vars == <<cp, dest, tcp_state_table, sysctl, skb_in, skb, op, xmit, esmib,
          tcp_apps, appcnt, tcp_app_lock, cpu>>

-----------------------------------------------------------------------------
(* 32-bit arithmetic                                                       *)

Half == 256 * 256

U32(hi, lo) == <<hi, lo>>

Zero32 == U32(0, 0)

One32 == U32(0, 1)

Add32(a, b) ==
    LET lo == a[2] + b[2]
        hi == a[1] + b[1] + (lo \div Half)
    IN  <<hi % Half, lo % Half>>

Sub32(a, b) ==
    LET lo == a[2] - b[2]
        borrow == IF lo < 0 THEN 1 ELSE 0
        hi == a[1] - b[1] - borrow
    IN  <<(hi + Half) % Half, (lo + Half) % Half>>

\* a small non-negative int widened to 32 bits
Int32(n) == U32(n \div Half, n % Half)

\* before(seq1, seq2): (__s32)(seq1 - seq2) < 0
before(seq1, seq2) == Sub32(seq1, seq2)[1] >= 32768

\* after(seq2, seq1) is before(seq1, seq2)
after(seq2, seq1) == before(seq1, seq2)

\* ntohl of four wire bytes; htonl of a host-order number
ntohl(b) == U32(b[1] * 256 + b[2], b[3] * 256 + b[4])

htonl(v) == <<v[1] \div 256, v[1] % 256, v[2] \div 256, v[2] % 256>>

\* ntohs / htons on two wire bytes
ntohs(b) == b[1] * 256 + b[2]

htons(n) == <<(n \div 256) % 256, n % 256>>

BeZero == <<0, 0, 0, 0>>

-----------------------------------------------------------------------------
(* The TCP pseudo-states and the two state tables                          *)

IP_VS_TCP_S_NONE == 0

IP_VS_TCP_S_ESTABLISHED == 1

IP_VS_TCP_S_SYN_SENT == 2

IP_VS_TCP_S_SYN_RECV == 3

IP_VS_TCP_S_FIN_WAIT == 4

IP_VS_TCP_S_TIME_WAIT == 5

IP_VS_TCP_S_CLOSE == 6

IP_VS_TCP_S_CLOSE_WAIT == 7

IP_VS_TCP_S_LAST_ACK == 8

IP_VS_TCP_S_LISTEN == 9

IP_VS_TCP_S_SYNACK == 10

IP_VS_TCP_S_LAST == 11

\* the 11 states a flow can be in
States == IP_VS_TCP_S_NONE .. (IP_VS_TCP_S_LAST - 1)

sNO == IP_VS_TCP_S_NONE
sES == IP_VS_TCP_S_ESTABLISHED
sSS == IP_VS_TCP_S_SYN_SENT
sSR == IP_VS_TCP_S_SYN_RECV
sFW == IP_VS_TCP_S_FIN_WAIT
sTW == IP_VS_TCP_S_TIME_WAIT
sCL == IP_VS_TCP_S_CLOSE
sCW == IP_VS_TCP_S_CLOSE_WAIT
sLA == IP_VS_TCP_S_LAST_ACK
sLI == IP_VS_TCP_S_LISTEN
sSA == IP_VS_TCP_S_SYNACK

IP_VS_DIR_INPUT == "INPUT"

IP_VS_DIR_OUTPUT == "OUTPUT"

IP_VS_DIR_INPUT_ONLY == "INPUT_ONLY"

Directions == {IP_VS_DIR_INPUT, IP_VS_DIR_OUTPUT, IP_VS_DIR_INPUT_ONLY}

TCP_DIR_INPUT == 0

TCP_DIR_OUTPUT == 4

TCP_DIR_INPUT_ONLY == 8

tcp_state_off(direction) ==
    CASE direction = IP_VS_DIR_INPUT -> TCP_DIR_INPUT
      [] direction = IP_VS_DIR_OUTPUT -> TCP_DIR_OUTPUT
      [] direction = IP_VS_DIR_INPUT_ONLY -> TCP_DIR_INPUT_ONLY

\* sysctl_ip_vs_tcp_timeouts[state], in units of HZ
sysctl_ip_vs_tcp_timeouts ==
    <<2, 90, 3, 30, 3, 3, 3, 3, 3, 120, 30, 2>>

timeout_table(state) == sysctl_ip_vs_tcp_timeouts[state + 1]

\* tcp_states with one cell (OUTPUT rst, sES) holding the LAST sentinel
tcp_states_holed ==
    <<
    <<sSR, sES, sES, sSR, sSR, sSR, sSR, sSR, sSR, sSR, sSR>>,
    <<sCL, sCW, sSS, sTW, sTW, sTW, sCL, sCW, sLA, sLI, sTW>>,
    <<sCL, sES, sSS, sES, sFW, sTW, sCL, sCW, sCL, sLI, sES>>,
    <<sCL, sCL, sCL, sSR, sCL, sCL, sCL, sCL, sLA, sLI, sSR>>,
    <<sSS, sES, sSS, sSR, sSS, sSS, sSS, sSS, sSS, sLI, sSR>>,
    <<sTW, sFW, sSS, sTW, sFW, sTW, sCL, sTW, sLA, sLI, sTW>>,
    <<sES, sES, sSS, sES, sFW, sTW, sCL, sCW, sLA, sES, sES>>,
    <<sCL, IP_VS_TCP_S_LAST, sSS, sCL, sCL, sTW, sCL, sCL, sCL, sCL, sCL>>,
    <<sSR, sES, sES, sSR, sSR, sSR, sSR, sSR, sSR, sSR, sSR>>,
    <<sCL, sFW, sSS, sTW, sFW, sTW, sCL, sCW, sLA, sLI, sTW>>,
    <<sCL, sES, sSS, sES, sFW, sTW, sCL, sCW, sCL, sLI, sES>>,
    <<sCL, sCL, sCL, sSR, sCL, sCL, sCL, sCL, sLA, sLI, sCL>>
    >>

\* rows: INPUT syn fin ack rst, OUTPUT syn fin ack rst, INPUT-ONLY syn fin ack rst
\* columns: sNO sES sSS sSR sFW sTW sCL sCW sLA sLI sSA
tcp_states ==
    <<
    <<sSR, sES, sES, sSR, sSR, sSR, sSR, sSR, sSR, sSR, sSR>>,
    <<sCL, sCW, sSS, sTW, sTW, sTW, sCL, sCW, sLA, sLI, sTW>>,
    <<sCL, sES, sSS, sES, sFW, sTW, sCL, sCW, sCL, sLI, sES>>,
    <<sCL, sCL, sCL, sSR, sCL, sCL, sCL, sCL, sLA, sLI, sSR>>,
    <<sSS, sES, sSS, sSR, sSS, sSS, sSS, sSS, sSS, sLI, sSR>>,
    <<sTW, sFW, sSS, sTW, sFW, sTW, sCL, sTW, sLA, sLI, sTW>>,
    <<sES, sES, sSS, sES, sFW, sTW, sCL, sCW, sLA, sES, sES>>,
    <<sCL, sCL, sSS, sCL, sCL, sTW, sCL, sCL, sCL, sCL, sCL>>,
    <<sSR, sES, sES, sSR, sSR, sSR, sSR, sSR, sSR, sSR, sSR>>,
    <<sCL, sFW, sSS, sTW, sFW, sTW, sCL, sCW, sLA, sLI, sTW>>,
    <<sCL, sES, sSS, sES, sFW, sTW, sCL, sCW, sCL, sLI, sES>>,
    <<sCL, sCL, sCL, sSR, sCL, sCL, sCL, sCL, sLA, sLI, sCL>>
    >>

tcp_states_dos ==
    <<
    <<sSR, sES, sES, sSR, sSR, sSR, sSR, sSR, sSR, sSR, sSA>>,
    <<sCL, sCW, sSS, sTW, sTW, sTW, sCL, sCW, sLA, sLI, sSA>>,
    <<sCL, sES, sSS, sSR, sFW, sTW, sCL, sCW, sCL, sLI, sSA>>,
    <<sCL, sCL, sCL, sSR, sCL, sCL, sCL, sCL, sLA, sLI, sCL>>,
    <<sSS, sES, sSS, sSA, sSS, sSS, sSS, sSS, sSS, sLI, sSA>>,
    <<sTW, sFW, sSS, sTW, sFW, sTW, sCL, sTW, sLA, sLI, sTW>>,
    <<sES, sES, sSS, sES, sFW, sTW, sCL, sCW, sLA, sES, sES>>,
    <<sCL, sCL, sSS, sCL, sCL, sTW, sCL, sCL, sCL, sCL, sCL>>,
    <<sSA, sES, sES, sSR, sSA, sSA, sSA, sSA, sSA, sSA, sSA>>,
    <<sCL, sFW, sSS, sTW, sFW, sTW, sCL, sCW, sLA, sLI, sTW>>,
    <<sCL, sES, sSS, sES, sFW, sTW, sCL, sCW, sCL, sLI, sES>>,
    <<sCL, sCL, sCL, sSR, sCL, sCL, sCL, sCL, sLA, sLI, sCL>>
    >>

TableNames == {"tcp_states", "tcp_states_dos"}

\* the same, the normal table having a cell that holds the LAST sentinel
Table_holed(name) ==
    IF name = "tcp_states_dos" THEN tcp_states_dos ELSE tcp_states_holed

\* the same, the secure table sending an ingress SYN on SYNACK to SYN_RECV
Table_nosticky(name) ==
    IF name = "tcp_states_dos"
    THEN [tcp_states_dos EXCEPT ![TCP_DIR_INPUT + 1][sSA + 1] = sSR]
    ELSE tcp_states

\* the same, the normal table sending an ingress SYN on NONE to LISTEN
Table_listen(name) ==
    IF name = "tcp_states_dos" THEN tcp_states_dos
    ELSE [tcp_states EXCEPT ![TCP_DIR_INPUT + 1][sNO + 1] = sLI]

\* the table a value of the module pointer designates
Table(name) == IF name = "tcp_states_dos" THEN tcp_states_dos ELSE tcp_states


\* tcp_state_table[row].next_state[state]
next_state(name, row, state) == Table(name)[row + 1][state + 1]

-----------------------------------------------------------------------------
(* Segments and flows                                                      *)

\* flag bits of cp->flags; the forwarding methods are kept as members too
IP_VS_CONN_F_MASQ == "MASQ"

IP_VS_CONN_F_DROUTE == "DROUTE"

IP_VS_CONN_F_FULLNAT == "FULLNAT"

IP_VS_CONN_F_INACTIVE == "INACTIVE"

IP_VS_CONN_F_NOOUTPUT == "NOOUTPUT"

IP_VS_CONN_F_CIP_INSERTED == "CIP_INSERTED"

FwdMethods == {IP_VS_CONN_F_MASQ, IP_VS_CONN_F_DROUTE, IP_VS_CONN_F_FULLNAT}

AF_INET == "AF_INET"

AF_INET6 == "AF_INET6"

\* the addresses and ports of the flow of scenario 1 (wire bytes)
CAddr == <<1, 1, 1, 1>>

CPort == htons(5000)

VPort == htons(80)

LPort == htons(40000)

DPort == htons(8080)

\* a record with its fields put in TLC's canonical order where it is built
\* (the comparison orders them), so that no two workers ever order it at once
Rec(r) == IF r = r THEN r ELSE r

\* a TCP segment: the fixed header's fields, then the bytes that follow it
\* (options, then payload); short = 1 when the fixed header cannot be read
Segment(syn, ack, fin, rst, seq, ack_seq, doff, data) ==
    Rec([short |-> 0, source |-> CPort, dest |-> VPort,
         seq |-> seq, ack_seq |-> ack_seq, doff |-> doff,
         syn |-> syn, ack |-> ack, fin |-> fin, rst |-> rst,
         data |-> data, tot_len |-> 20 + 20 + Len(data)])

\* a segment that carries flags only
FlagSegment(syn, ack, fin, rst) ==
    Segment(syn, ack, fin, rst, BeZero, BeZero, 5, <<>>)

\* a packet too short to hold a TCP header
ShortSegment == [FlagSegment(0, 0, 0, 0) EXCEPT !.short = 1]

NoSegment == FlagSegment(0, 0, 0, 0)

\* the options length of a segment: (doff * 4) - sizeof(struct tcphdr)
OptLength(th) == (th.doff * 4) - 20

\* a flow as ip_vs_conn_new leaves it, before any packet
NewConn(fwd, af, noout, hasdest, hasapp) ==
    [state |-> IP_VS_TCP_S_NONE, old_state |-> IP_VS_TCP_S_NONE,
     timeout |-> timeout_table(IP_VS_TCP_S_NONE),
     flags |-> {fwd, IP_VS_CONN_F_INACTIVE}
               \cup (IF noout THEN {IP_VS_CONN_F_NOOUTPUT} ELSE {}),
     af |-> af, dest |-> hasdest, app |-> hasapp,
     fnat_seq |-> [init_seq |-> Zero32, delta |-> Zero32, fdata_seq |-> Zero32],
     syn_proxy_seq |-> [delta |-> Zero32],
     rs_end_seq |-> BeZero, rs_ack_seq |-> BeZero,
     ack_skb |-> <<>>,
     caddr |-> CAddr, vaddr |-> <<10, 0, 0, 1>>, laddr |-> <<10, 0, 0, 2>>,
     daddr |-> <<192, 168, 1, 9>>, cport |-> CPort, vport |-> VPort,
     lport |-> LPort, dport |-> DPort]

NewDest == [activeconns |-> 0, inactconns |-> 1]

\* IP_VS_INC_ESTATS(ip_vs_esmib, FULLNAT_ADD_TOA_OK) counts the appended options
NewStats == [FULLNAT_ADD_TOA_OK |-> 0, DEFENCE_TCP_DROP |-> 0]

\* the last operation, for the properties to read
\* toa: the client-address option was appended; oob: an offset past the end of
\* the buffer was touched; walks: the option walks the handler made, in order;
\* alloc: whether each alloc_skb of the operation returned a buffer
Op(name, ret) ==
    Rec([name |-> name, ret |-> ret, dir |-> "", toa |-> FALSE, oob |-> FALSE,
         walks |-> <<>>, alloc |-> <<>>,
         verdict |-> "", cpp |-> FALSE, calls |-> <<>>, env |-> <<>>])

\* the record of one option walk over length bytes of options
Walk(who, length, w) ==
    Rec([who |-> who, length |-> length, rd |-> w.rd, wr |-> w.wr, opt |-> w.opt])

-----------------------------------------------------------------------------
(* The state machine                                                       *)

\* tcp_state_idx testing the flags in the order syn, fin, ack, rst
tcp_state_idx_synfirst(th) ==
    IF th.syn = 1 THEN 0
    ELSE IF th.fin = 1 THEN 1
    ELSE IF th.ack = 1 THEN 2
    ELSE IF th.rst = 1 THEN 3
    ELSE -1

\* tcp_state_idx testing the flags in the order rst, fin, syn, ack
tcp_state_idx_finfirst(th) ==
    IF th.rst = 1 THEN 3
    ELSE IF th.fin = 1 THEN 1
    ELSE IF th.syn = 1 THEN 0
    ELSE IF th.ack = 1 THEN 2
    ELSE -1

tcp_state_idx(th) ==
    IF th.rst = 1 THEN 3
    ELSE IF th.syn = 1 THEN 0
    ELSE IF th.fin = 1 THEN 1
    ELSE IF th.ack = 1 THEN 2
    ELSE -1

\* set_tcp_state with one of its steps altered: "keep" leaves the state alone
\* when no flag class matches, "oldtimeout" reads the timeout of the state
\* before the commit, "commitfirst" snapshots old_state after the commit,
\* "noremap" never remaps the direction to INPUT_ONLY
set_tcp_state_altered(c, d, table, direction, th, how) ==
    LET off0 == tcp_state_off(direction)
        noout == IP_VS_CONN_F_NOOUTPUT \in c.flags
        flags1 == IF noout /\ off0 = TCP_DIR_OUTPUT
                  THEN c.flags \ {IP_VS_CONN_F_NOOUTPUT} ELSE c.flags
        state_off == IF noout /\ off0 # TCP_DIR_OUTPUT /\ how # "noremap"
                     THEN TCP_DIR_INPUT_ONLY ELSE off0
        state_idx == tcp_state_idx(th)
        new_state == IF state_idx < 0
                     THEN (IF how = "keep" THEN c.state ELSE IP_VS_TCP_S_CLOSE)
                     ELSE next_state(table, state_off + state_idx, c.state)
        changed == new_state # c.state /\ c.dest
        deact == changed /\ IP_VS_CONN_F_INACTIVE \notin flags1
                 /\ new_state # IP_VS_TCP_S_ESTABLISHED
        act == changed /\ ~deact /\ IP_VS_CONN_F_INACTIVE \in flags1
               /\ new_state = IP_VS_TCP_S_ESTABLISHED
        flags2 == IF deact THEN flags1 \cup {IP_VS_CONN_F_INACTIVE}
                  ELSE IF act THEN flags1 \ {IP_VS_CONN_F_INACTIVE}
                  ELSE flags1
        d2 == IF deact
              THEN [d EXCEPT !.activeconns = @ - 1, !.inactconns = @ + 1]
              ELSE IF act
              THEN [d EXCEPT !.activeconns = @ + 1, !.inactconns = @ - 1]
              ELSE d
    IN  [cp |-> [c EXCEPT !.flags = flags2,
                          !.old_state = IF how = "commitfirst" THEN new_state
                                        ELSE c.state,
                          !.state = new_state,
                          !.timeout = IF how = "oldtimeout"
                                      THEN timeout_table(c.state)
                                      ELSE timeout_table(new_state)],
         dest |-> d2]

set_tcp_state_keep(c, d, table, direction, th) ==
    set_tcp_state_altered(c, d, table, direction, th, "keep")

set_tcp_state_oldtimeout(c, d, table, direction, th) ==
    set_tcp_state_altered(c, d, table, direction, th, "oldtimeout")

set_tcp_state_commitfirst(c, d, table, direction, th) ==
    set_tcp_state_altered(c, d, table, direction, th, "commitfirst")

set_tcp_state_noremap(c, d, table, direction, th) ==
    set_tcp_state_altered(c, d, table, direction, th, "noremap")

\* set_tcp_state: the flow and its backend's counters after the call
set_tcp_state(c, d, table, direction, th) ==
    LET off0 == tcp_state_off(direction)
        noout == IP_VS_CONN_F_NOOUTPUT \in c.flags
        flags1 == IF noout /\ off0 = TCP_DIR_OUTPUT
                  THEN c.flags \ {IP_VS_CONN_F_NOOUTPUT} ELSE c.flags
        state_off == IF noout /\ off0 # TCP_DIR_OUTPUT
                     THEN TCP_DIR_INPUT_ONLY ELSE off0
        state_idx == tcp_state_idx(th)
        new_state == IF state_idx < 0 THEN IP_VS_TCP_S_CLOSE
                     ELSE next_state(table, state_off + state_idx, c.state)
        changed == new_state # c.state /\ c.dest
        deact == changed /\ IP_VS_CONN_F_INACTIVE \notin flags1
                 /\ new_state # IP_VS_TCP_S_ESTABLISHED
        act == changed /\ ~deact /\ IP_VS_CONN_F_INACTIVE \in flags1
               /\ new_state = IP_VS_TCP_S_ESTABLISHED
        flags2 == IF deact THEN flags1 \cup {IP_VS_CONN_F_INACTIVE}
                  ELSE IF act THEN flags1 \ {IP_VS_CONN_F_INACTIVE}
                  ELSE flags1
        d2 == IF deact
              THEN [d EXCEPT !.activeconns = @ - 1, !.inactconns = @ + 1]
              ELSE IF act
              THEN [d EXCEPT !.activeconns = @ + 1, !.inactconns = @ - 1]
              ELSE d
    IN  [cp |-> [c EXCEPT !.flags = flags2, !.old_state = c.state,
                          !.state = new_state,
                          !.timeout = timeout_table(new_state)],
         dest |-> d2]

\* tcp_state_transition(cp, direction, skb, pp)
tcp_state_transition(direction, pkt) ==
    /\ skb_in' = pkt
    /\ skb' = pkt
    /\ IF pkt.short = 1
       THEN /\ op' = [Op("state_transition", 0) EXCEPT !.dir = direction]
            /\ UNCHANGED <<cp, dest>>
       ELSE LET r == set_tcp_state(cp, dest, tcp_state_table, direction, pkt)
            IN  /\ cp' = r.cp
                /\ dest' = r.dest
                /\ op' = [Op("state_transition", 1) EXCEPT !.dir = direction]
    /\ UNCHANGED <<tcp_state_table, sysctl, xmit, esmib,
                   tcp_apps, appcnt, tcp_app_lock, cpu>>

\* tcp_timeout_change(pp, flags): bit 0 selects the secure table
tcp_timeout_change(flags) ==
    /\ tcp_state_table' = IF flags % 2 = 1 THEN "tcp_states_dos" ELSE "tcp_states"
    /\ op' = Op("timeout_change", flags)
    /\ UNCHANGED <<cp, dest, sysctl, skb_in, skb, xmit, esmib,
                   tcp_apps, appcnt, tcp_app_lock, cpu>>

\* ip_vs_tcp_conn_listen(cp)
ip_vs_tcp_conn_listen ==
    /\ cp' = [cp EXCEPT !.state = IP_VS_TCP_S_LISTEN,
                        !.timeout = timeout_table(IP_VS_TCP_S_LISTEN)]
    /\ op' = Op("conn_listen", 1)
    /\ UNCHANGED <<dest, tcp_state_table, sysctl, skb_in, skb, xmit, esmib,
                   tcp_apps, appcnt, tcp_app_lock, cpu>>

-----------------------------------------------------------------------------
(* The option walkers.  The walk runs over skb.data from offset 0; ptr is  *)
(* the offset of the next byte and length the bytes left of the options.   *)
(* A walk yields the bytes after it, the offsets it read (rd) and wrote    *)
(* (wr), and oob: whether it touched an offset past the end of the buffer. *)
(* A byte read past the end of the buffer has the arbitrary value junk.    *)

TCPOPT_EOL == 0

TCPOPT_NOP == 1

TCPOPT_MSS == 2

TCPOPT_SACK == 5

TCPOPT_TIMESTAMP == 8

TCPOPT_ADDR == 254

TCPOLEN_MSS == 4

TCPOLEN_TIMESTAMP == 10

TCPOLEN_ADDR == 8

TCPOLEN_SACK_BASE == 2

TCPOLEN_SACK_PERBLOCK == 8

\* *(ptr) for a byte pointer at offset i
RdByte(data, i, junk) == IF i < Len(data) THEN data[i + 1] ELSE junk

\* the bytes at offsets o .. o + n - 1
RdBytes(data, o, n, junk) == [k \in 1 .. n |-> RdByte(data, o + k - 1, junk)]

\* the buffer after bytes are stored at offset o (stores past its end are lost)
WrBytes(data, o, bytes) ==
    [k \in 1 .. Len(data) |->
        IF k - 1 >= o /\ k - 1 < o + Len(bytes) THEN bytes[k - o] ELSE data[k]]

Span(o, n) == o .. (o + n - 1)

\* opt: the offsets of the option the walk matched and rewrote, if any
Walked(data, rd, wr, opt) ==
    [data |-> data, rd |-> rd, wr |-> wr, opt |-> opt,
     oob |-> \E i \in rd \cup wr : i >= Len(data)]

\* __u16 subtraction
Sub16(a, b) == (a - b + Half) % Half

RECURSIVE mss_walk(_, _, _, _, _)
mss_walk(data, ptr, length, rd, junk) ==
    IF length <= 0 THEN Walked(data, rd, {}, {})
    ELSE
    LET opcode == RdByte(data, ptr, junk)
        rd1 == rd \cup {ptr}
    IN  IF opcode = TCPOPT_EOL THEN Walked(data, rd1, {}, {})
        ELSE IF opcode = TCPOPT_NOP
        THEN mss_walk(data, ptr + 1, length - 1, rd1, junk)
        ELSE
        LET opsize == RdByte(data, ptr + 1, junk)
            rd2 == rd1 \cup {ptr + 1}
        IN  IF opsize < 2 THEN Walked(data, rd2, {}, {})
            ELSE IF opsize > length THEN Walked(data, rd2, {}, {})
            ELSE IF opcode = TCPOPT_MSS /\ opsize = TCPOLEN_MSS
            THEN LET in_mss == ntohs(RdBytes(data, ptr + 2, 2, junk))
                     out == htons(Sub16(in_mss, TCPOLEN_ADDR))
                 IN  Walked(WrBytes(data, ptr + 2, out),
                            rd2 \cup Span(ptr + 2, 2), Span(ptr + 2, 2),
                            Span(ptr, opsize))
            ELSE mss_walk(data, ptr + opsize, length - opsize, rd2, junk)

\* tcp_opt_adjust_mss(tcph)
tcp_opt_adjust_mss(mss_adjust_entry, th, junk) ==
    IF mss_adjust_entry = 0 THEN Walked(th.data, {}, {}, {})
    ELSE mss_walk(th.data, 0, OptLength(th), {}, junk)

RECURSIVE timestamp_walk(_, _, _, _, _)
timestamp_walk(data, ptr, length, rd, junk) ==
    IF length <= 0 THEN Walked(data, rd, {}, {})
    ELSE
    LET opcode == RdByte(data, ptr, junk)
        rd1 == rd \cup {ptr}
    IN  IF opcode = TCPOPT_EOL THEN Walked(data, rd1, {}, {})
        ELSE IF opcode = TCPOPT_NOP
        THEN timestamp_walk(data, ptr + 1, length - 1, rd1, junk)
        ELSE
        LET opsize == RdByte(data, ptr + 1, junk)
            rd2 == rd1 \cup {ptr + 1}
        IN  IF opsize < 2 THEN Walked(data, rd2, {}, {})
            ELSE IF opsize > length THEN Walked(data, rd2, {}, {})
            ELSE IF opcode = TCPOPT_TIMESTAMP /\ opsize = TCPOLEN_TIMESTAMP
            THEN Walked(WrBytes(data, ptr,
                                [i \in 1 .. TCPOLEN_TIMESTAMP |-> TCPOPT_NOP]),
                        rd2, Span(ptr, TCPOLEN_TIMESTAMP), Span(ptr, opsize))
            ELSE timestamp_walk(data, ptr + opsize, length - opsize, rd2, junk)

\* tcp_opt_remove_timestamp(tcph)
tcp_opt_remove_timestamp(timestamp_remove_entry, th, junk) ==
    IF timestamp_remove_entry = 0 THEN Walked(th.data, {}, {}, {})
    ELSE timestamp_walk(th.data, 0, OptLength(th), {}, junk)

\* the offset, from ptr, of *((__u32 *) ptr + i): the cast binds before the
\* addition, so i counts 32-bit words
SackWordOffset(i) == 4 * i

\* the SACK loop: for (i = 0; i < opsize - TCPOLEN_SACK_BASE; i += 4)
RECURSIVE sack_loop(_, _, _, _, _, _, _, _)
sack_loop(data, ptr, i, opsize, delta, rd, wr, junk) ==
    IF ~(i < opsize - TCPOLEN_SACK_BASE)
    THEN Walked(data, rd, wr, Span(ptr - 2, opsize))
    ELSE
    LET o == ptr + SackWordOffset(i)
        word == htonl(Sub32(ntohl(RdBytes(data, o, 4, junk)), delta))
    IN  sack_loop(WrBytes(data, o, word), ptr, (i + 4) % 256, opsize, delta,
                  rd \cup Span(o, 4), wr \cup Span(o, 4), junk)

RECURSIVE sack_walk(_, _, _, _, _, _)
sack_walk(data, ptr, length, delta, rd, junk) ==
    IF length <= 0 THEN Walked(data, rd, {}, {})
    ELSE
    LET opcode == RdByte(data, ptr, junk)
        rd1 == rd \cup {ptr}
    IN  IF opcode = TCPOPT_EOL THEN Walked(data, rd1, {}, {})
        ELSE IF opcode = TCPOPT_NOP
        THEN sack_walk(data, ptr + 1, length - 1, delta, rd1, junk)
        ELSE
        LET opsize == RdByte(data, ptr + 1, junk)
            rd2 == rd1 \cup {ptr + 1}
        IN  IF opsize < 2 THEN Walked(data, rd2, {}, {})
            ELSE IF opsize > length THEN Walked(data, rd2, {}, {})
            ELSE IF /\ opcode = TCPOPT_SACK
                    /\ opsize >= TCPOLEN_SACK_BASE + TCPOLEN_SACK_PERBLOCK
                    /\ (opsize - TCPOLEN_SACK_BASE) % TCPOLEN_SACK_PERBLOCK = 0
            THEN sack_loop(data, ptr + 2, 0, opsize, delta, rd2, {}, junk)
            ELSE sack_walk(data, ptr + opsize, length - opsize, delta, rd2, junk)

-----------------------------------------------------------------------------
(* Sequence translation and the reverse-path record                        *)

\* v + n for a (possibly negative) int n
AddInt32(v, n) == IF n >= 0 THEN Add32(v, Int32(n)) ELSE Sub32(v, Int32(-n))

\* skb->len - ihl - (th->doff << 2)
PayloadLen(th) == Len(th.data) - OptLength(th)

\* tcp_save_out_seq without the regress test
tcp_save_out_seq_noskip(conn_expire_tcp_rst, c, th) ==
    IF conn_expire_tcp_rst # 0 /\ th.rst = 0
    THEN [c EXCEPT
            !.rs_end_seq =
                IF th.syn = 1 /\ th.ack = 1
                THEN htonl(Add32(ntohl(th.seq), One32))
                ELSE htonl(AddInt32(ntohl(th.seq), PayloadLen(th))),
            !.rs_ack_seq = th.ack_seq]
    ELSE c

\* tcp_save_out_seq(skb, cp, th, ihl): the flow after the call
tcp_save_out_seq(conn_expire_tcp_rst, c, th) ==
    IF conn_expire_tcp_rst # 0 /\ th.rst = 0
    THEN IF /\ before(ntohl(th.ack_seq), ntohl(c.rs_ack_seq))
            /\ c.rs_ack_seq # BeZero
         THEN c
         ELSE [c EXCEPT
                 !.rs_end_seq =
                     IF th.syn = 1 /\ th.ack = 1
                     THEN htonl(Add32(ntohl(th.seq), One32))
                     ELSE htonl(AddInt32(ntohl(th.seq), PayloadLen(th))),
                 !.rs_ack_seq = th.ack_seq]
    ELSE c

\* ip_vs_synproxy_snat_handler(tcph, cp): verdict 0 drops the segment (ack
\* storm); the header is left as it is
ip_vs_synproxy_snat_handler(th, verdict) == [ret |-> verdict, th |-> th]

\* ip_vs_synproxy_dnat_handler(tcph, &cp->syn_proxy_seq): leaves the header
ip_vs_synproxy_dnat_handler(th) == th

\* tcp_out_adjust_seq with the ack_seq left as it came
tcp_out_adjust_seq_noack(c, th, verdict, junk) ==
    LET h == ip_vs_synproxy_snat_handler(th, verdict)
    IN  IF h.ret = 0 THEN [ret |-> 0, th |-> h.th, w |-> Walked(h.th.data, {}, {}, {})]
        ELSE
        LET w == sack_walk(h.th.data, 0, OptLength(h.th), c.fnat_seq.delta, {}, junk)
        IN  [ret |-> 1, th |-> [h.th EXCEPT !.data = w.data], w |-> w]

\* tcp_out_adjust_seq(cp, tcph): the return value, the header, the SACK walk
tcp_out_adjust_seq(c, th, verdict, junk) ==
    LET h == ip_vs_synproxy_snat_handler(th, verdict)
    IN  IF h.ret = 0 THEN [ret |-> 0, th |-> h.th, w |-> Walked(h.th.data, {}, {}, {})]
        ELSE
        LET th1 == [h.th EXCEPT
                      !.ack_seq = htonl(Sub32(ntohl(h.th.ack_seq), c.fnat_seq.delta))]
            w == sack_walk(th1.data, 0, OptLength(th1), c.fnat_seq.delta, {}, junk)
        IN  [ret |-> 1, th |-> [th1 EXCEPT !.data = w.data], w |-> w]

\* tcp_in_init_seq that leaves CIP_INSERTED as it finds it
tcp_in_init_seq_keepflag(conn_reused_entry, c, th, isn) ==
    LET seq == ntohl(th.seq)
        fseq == c.fnat_seq
        reused == /\ conn_reused_entry = 1
                  /\ fseq.init_seq # Zero32
                  /\ c.state \in {IP_VS_TCP_S_SYN_RECV, IP_VS_TCP_S_SYN_SENT}
        c1 == [c EXCEPT !.fnat_seq.fdata_seq = Add32(seq, One32)]
    IN  IF fseq.init_seq = Zero32 \/ reused
        THEN [c1 EXCEPT !.fnat_seq.init_seq = isn,
                        !.fnat_seq.delta = Sub32(isn, seq)]
        ELSE c1

\* tcp_in_init_seq that regenerates init_seq and delta on every call
tcp_in_init_seq_always(conn_reused_entry, c, th, isn) ==
    LET seq == ntohl(th.seq)
    IN  [c EXCEPT !.flags = c.flags \ {IP_VS_CONN_F_CIP_INSERTED},
                  !.fnat_seq.fdata_seq = Add32(seq, One32),
                  !.fnat_seq.init_seq = isn,
                  !.fnat_seq.delta = Sub32(isn, seq)]

\* tcp_in_init_seq(cp, skb, tcph); isn is what the secure sequence generator
\* returns when it is called
tcp_in_init_seq(conn_reused_entry, c, th, isn) ==
    LET seq == ntohl(th.seq)
        fseq == c.fnat_seq
        reused == /\ conn_reused_entry = 1
                  /\ fseq.init_seq # Zero32
                  /\ c.state \in {IP_VS_TCP_S_SYN_RECV, IP_VS_TCP_S_SYN_SENT}
        c1 == [c EXCEPT !.fnat_seq.fdata_seq = Add32(seq, One32),
                        !.flags = c.flags \ {IP_VS_CONN_F_CIP_INSERTED}]
    IN  IF fseq.init_seq = Zero32 \/ reused
        THEN [c1 EXCEPT !.fnat_seq.init_seq = isn,
                        !.fnat_seq.delta = Sub32(isn, seq)]
        ELSE c1

\* tcp_in_adjust_seq(cp, tcph)
tcp_in_adjust_seq(c, th) ==
    ip_vs_synproxy_dnat_handler(
        [th EXCEPT !.seq = htonl(Add32(ntohl(th.seq), c.fnat_seq.delta))])

\* the eight bytes of struct ip_vs_tcpo_addr for flow c
ToaBytes(c) == <<TCPOPT_ADDR, TCPOLEN_ADDR>> \o c.cport \o c.caddr

\* tcp_opt_add_toa without the test against fdata_seq
tcp_opt_add_toa_nogate(c, th, mtu, alloc_ok) ==
    LET keep == [cp |-> c, th |-> th, toa |-> FALSE]
    IN  IF c.af # AF_INET THEN keep
        ELSE IF th.tot_len > mtu - TCPOLEN_ADDR THEN keep
        ELSE IF ~alloc_ok THEN keep
        ELSE [cp |-> c,
              th |-> [th EXCEPT !.data = ToaBytes(c) \o th.data,
                                !.doff = (th.doff + (TCPOLEN_ADDR \div 4)) % 16,
                                !.tot_len = (th.tot_len + TCPOLEN_ADDR) % Half],
              toa |-> TRUE]

\* tcp_opt_add_toa(cp, old_skb, &tcph): the flow, the header, whether the
\* option was appended
tcp_opt_add_toa(c, th, mtu, alloc_ok) ==
    LET seq == ntohl(th.seq)
        keep == [cp |-> c, th |-> th, toa |-> FALSE]
    IN  IF c.af # AF_INET THEN keep
        ELSE IF after(seq, c.fnat_seq.fdata_seq)
        THEN [keep EXCEPT !.cp.flags = c.flags \cup {IP_VS_CONN_F_CIP_INSERTED}]
        ELSE IF th.tot_len > mtu - TCPOLEN_ADDR THEN keep
        ELSE IF ~alloc_ok THEN keep
        ELSE [cp |-> c,
              th |-> [th EXCEPT !.data = ToaBytes(c) \o th.data,
                                !.doff = (th.doff + (TCPOLEN_ADDR \div 4)) % 16,
                                !.tot_len = (th.tot_len + TCPOLEN_ADDR) % Half],
              toa |-> TRUE]

-----------------------------------------------------------------------------
(* The rewrite handlers.  pre is how the checks before the mutations end:  *)
(* "nowrite" (skb_make_writable fails), "csum" (the checksum check fails), *)
(* "app" (the helper's callback rejects), "ok"; the last two are only      *)
(* consulted when a helper is bound.                                       *)

PreOutcomes == {"ok", "nowrite", "csum", "app"}

\* whether the handler bails out before it mutates anything
\* Bails that lets a failed checksum pass
Bails_nocsum(c, pre) == pre = "nowrite" \/ (c.app /\ pre = "app")

Bails(c, pre) == pre = "nowrite" \/ (c.app /\ pre \in {"csum", "app"})

Handled(ret, c, th, toa, walks) ==
    [ret |-> ret, cp |-> c, th |-> th, toa |-> toa, walks |-> walks]

\* tcp_snat_handler(skb, pp, cp)
tcp_snat_handler(cfg, c, pkt, pre, verdict) ==
    IF Bails(c, pre) THEN Handled(0, c, pkt, FALSE, <<>>)
    ELSE
    LET c1 == tcp_save_out_seq(cfg.conn_expire_tcp_rst, c, pkt)
        th1 == [pkt EXCEPT !.source = c.vport]
        h == ip_vs_synproxy_snat_handler(th1, verdict)
    IN  IF h.ret = 0 THEN Handled(0, c1, h.th, FALSE, <<>>)
        ELSE Handled(1, c1, h.th, FALSE, <<>>)

\* tcp_fnat_out_handler(skb, pp, cp)
tcp_fnat_out_handler(cfg, c, pkt, pre, verdict, junk) ==
    IF Bails(c, pre) THEN Handled(0, c, pkt, FALSE, <<>>)
    ELSE
    LET c1 == tcp_save_out_seq(cfg.conn_expire_tcp_rst, c, pkt)
        th1 == [pkt EXCEPT !.source = c.vport, !.dest = c.cport]
        synack == th1.syn = 1 /\ th1.ack = 1
        m == tcp_opt_adjust_mss(cfg.mss_adjust_entry, th1, junk)
        th2 == IF synack THEN [th1 EXCEPT !.data = m.data] ELSE th1
        walks1 == IF synack THEN <<Walk("mss", OptLength(th1), m)>> ELSE <<>>
        a == tcp_out_adjust_seq(c1, th2, verdict, junk)
        walks2 == IF a.ret = 0 THEN walks1
                  ELSE Append(walks1, Walk("sack", OptLength(th2), a.w))
    IN  Handled(a.ret, c1, a.th, FALSE, walks2)

\* tcp_dnat_handler(skb, pp, cp)
tcp_dnat_handler(cfg, c, pkt, pre) ==
    IF Bails(c, pre) THEN Handled(0, c, pkt, FALSE, <<>>)
    ELSE Handled(1, c, ip_vs_synproxy_dnat_handler([pkt EXCEPT !.dest = c.dport]),
                 FALSE, <<>>)

\* tcp_fnat_in_handler(skb_p, pp, cp)
tcp_fnat_in_handler(cfg, c, pkt, pre, isn, mtu, alloc_ok, junk) ==
    IF Bails(c, pre) THEN Handled(0, c, pkt, FALSE, <<>>)
    ELSE
    LET th1 == [pkt EXCEPT !.source = c.lport, !.dest = c.dport]
        \* tcph->syn & !tcph->ack
        is_syn == th1.syn = 1 /\ th1.ack = 0
        t == tcp_opt_remove_timestamp(cfg.timestamp_remove_entry, th1, junk)
        th2 == IF is_syn THEN [th1 EXCEPT !.data = t.data] ELSE th1
        walks == IF is_syn THEN <<Walk("timestamp", OptLength(th1), t)>> ELSE <<>>
        c1 == IF is_syn THEN tcp_in_init_seq(cfg.conn_reused_entry, c, th2, isn)
              ELSE c
        add == /\ cfg.toa_entry = 1
               /\ IP_VS_CONN_F_CIP_INSERTED \notin c1.flags
               /\ th2.rst = 0
               /\ th2.fin = 0
        o == IF add THEN tcp_opt_add_toa(c1, th2, mtu, alloc_ok)
             ELSE [cp |-> c1, th |-> th2, toa |-> FALSE]
    IN  Handled(1, o.cp, tcp_in_adjust_seq(o.cp, o.th), o.toa, walks)

\* the most client-address options the counter FULLNAT_ADD_TOA_OK counts
MaxToaOk == 2

\* the handlers as steps of the system: the segment handed in, the segment
\* and the flow as the handler leaves them, and in op.env how the checks
\* before the rewrite went
RanPre(name, pkt, r, pre) ==
    /\ skb_in' = pkt
    /\ skb' = r.th
    /\ cp' = r.cp
    /\ op' = [Op(name, r.ret) EXCEPT
                !.env = pre, !.toa = r.toa, !.walks = r.walks,
                !.oob = \E k \in 1 .. Len(r.walks) :
                           \E i \in r.walks[k].rd \cup r.walks[k].wr :
                              i >= Len(pkt.data)]
    /\ esmib' = IF r.toa
                 THEN [esmib EXCEPT !.FULLNAT_ADD_TOA_OK = @ + 1]
                 ELSE esmib
    /\ UNCHANGED <<dest, tcp_state_table, sysctl, xmit,
                   tcp_apps, appcnt, tcp_app_lock, cpu>>

Ran(name, pkt, r) == RanPre(name, pkt, r, "ok")

SnatOut(pkt, pre, verdict) ==
    RanPre("snat", pkt, tcp_snat_handler(sysctl, cp, pkt, pre, verdict), pre)

FnatOut(pkt, pre, verdict, junk) ==
    RanPre("fnat_out", pkt, tcp_fnat_out_handler(sysctl, cp, pkt, pre, verdict, junk), pre)

DnatIn(pkt, pre) ==
    RanPre("dnat", pkt, tcp_dnat_handler(sysctl, cp, pkt, pre), pre)

FnatIn(pkt, pre, isn, mtu, alloc_ok, junk) ==
    /\ esmib.FULLNAT_ADD_TOA_OK < MaxToaOk
    /\ RanPre("fnat_in", pkt,
              tcp_fnat_in_handler(sysctl, cp, pkt, pre, isn, mtu, alloc_ok, junk),
              pre)

-----------------------------------------------------------------------------
(* Reset on expiry                                                          *)

\* a packet as it is handed to an xmit function
Xmit(via, th) == Rec([via |-> via, th |-> th])

\* the header tcp_send_rst_in and tcp_send_rst_out build: memset to zero, then
\* the ports, seq, ack_seq = 0, doff = sizeof(struct tcphdr) >> 2, rst = 1
RstHeader(source, dest_port, seq) ==
    [Segment(0, 0, 0, 1, seq, BeZero, 20 \div 4, <<>>) EXCEPT
        !.source = source, !.dest = dest_port]

\* skb_dequeue(&cp->ack_skb): the packet taken off the head (none when the
\* queue is empty) and the queue that is left
skb_dequeue(list) ==
    IF list = <<>> THEN [skb |-> <<>>, list |-> list]
    ELSE [skb |-> <<Head(list)>>, list |-> Tail(list)]

\* skb_queue_tail(&cp->ack_skb, newsk): the packet put at the tail
skb_queue_tail(list, newsk) == Append(list, newsk)

\* skb_queue_head(&cp->ack_skb, newsk): the packet put at the head
skb_queue_head(list, newsk) == <<newsk>> \o list

\* tcp_send_rst_in that sends whatever the flow's state is
tcp_send_rst_in_anystate(c, alloc_ok) ==
    LET tmp == IF c.state = IP_VS_TCP_S_SYN_SENT THEN skb_dequeue(c.ack_skb)
               ELSE [skb |-> <<>>, list |-> c.ack_skb]
    IN  IF ~alloc_ok THEN [sent |-> <<>>, ack_skb |-> c.ack_skb]
        ELSE IF tmp.skb # <<>>
        THEN [sent |-> <<Xmit("packet_xmit",
                              RstHeader(c.cport, c.vport, tmp.skb[1].seq))>>,
              ack_skb |-> skb_queue_head(tmp.list, tmp.skb[1])]
        ELSE [sent |-> <<Xmit("packet_xmit",
                      RstHeader(c.cport, c.vport,
                          IF IP_VS_CONN_F_FULLNAT \in c.flags
                          THEN htonl(Sub32(ntohl(c.rs_ack_seq), c.fnat_seq.delta))
                          ELSE c.rs_ack_seq))>>,
              ack_skb |-> tmp.list]

\* tcp_send_rst_in(pp, cp): the packets handed to cp->packet_xmit and the
\* flow's ACK queue after the call.  In SYN_SENT the queued ACK is taken off
\* the queue and put back at its head.
tcp_send_rst_in(c, alloc_ok) ==
    LET tmp == IF c.state = IP_VS_TCP_S_SYN_SENT THEN skb_dequeue(c.ack_skb)
               ELSE [skb |-> <<>>, list |-> c.ack_skb]
    IN  IF ~alloc_ok THEN [sent |-> <<>>, ack_skb |-> c.ack_skb]
        ELSE IF tmp.skb # <<>>
        THEN [sent |-> <<Xmit("packet_xmit",
                              RstHeader(c.cport, c.vport, tmp.skb[1].seq))>>,
              ack_skb |-> skb_queue_head(tmp.list, tmp.skb[1])]
        ELSE IF c.state = IP_VS_TCP_S_ESTABLISHED
        THEN [sent |-> <<Xmit("packet_xmit",
                      RstHeader(c.cport, c.vport,
                          IF IP_VS_CONN_F_FULLNAT \in c.flags
                          THEN htonl(Sub32(ntohl(c.rs_ack_seq), c.fnat_seq.delta))
                          ELSE c.rs_ack_seq))>>,
              ack_skb |-> tmp.list]
        ELSE [sent |-> <<>>, ack_skb |-> tmp.list]

\* tcp_send_rst_out that answers with rs_ack_seq
tcp_send_rst_out_ackseq(c, alloc_ok) ==
    LET via == IF IP_VS_CONN_F_FULLNAT \in c.flags
               THEN "ip_vs_fnat_response_xmit" ELSE "ip_vs_normal_response_xmit"
        dest_port == IF IP_VS_CONN_F_FULLNAT \in c.flags THEN c.lport ELSE c.cport
        tmp == IF c.state = IP_VS_TCP_S_SYN_SENT THEN skb_dequeue(c.ack_skb)
               ELSE [skb |-> <<>>, list |-> c.ack_skb]
    IN  IF ~alloc_ok THEN [sent |-> <<>>, ack_skb |-> c.ack_skb]
        ELSE IF tmp.skb # <<>>
        THEN [sent |-> <<Xmit(via, RstHeader(c.dport, dest_port,
                                   htonl(Sub32(ntohl(tmp.skb[1].ack_seq),
                                               c.syn_proxy_seq.delta))))>>,
              ack_skb |-> skb_queue_head(tmp.list, tmp.skb[1])]
        ELSE IF c.state = IP_VS_TCP_S_ESTABLISHED
        THEN [sent |-> <<Xmit(via, RstHeader(c.dport, dest_port, c.rs_ack_seq))>>,
              ack_skb |-> tmp.list]
        ELSE [sent |-> <<>>, ack_skb |-> tmp.list]

\* tcp_send_rst_out that puts the queued ACK back at the tail
tcp_send_rst_out_tail(c, alloc_ok) ==
    LET via == IF IP_VS_CONN_F_FULLNAT \in c.flags
               THEN "ip_vs_fnat_response_xmit" ELSE "ip_vs_normal_response_xmit"
        dest_port == IF IP_VS_CONN_F_FULLNAT \in c.flags THEN c.lport ELSE c.cport
        tmp == IF c.state = IP_VS_TCP_S_SYN_SENT THEN skb_dequeue(c.ack_skb)
               ELSE [skb |-> <<>>, list |-> c.ack_skb]
    IN  IF ~alloc_ok THEN [sent |-> <<>>, ack_skb |-> c.ack_skb]
        ELSE IF tmp.skb # <<>>
        THEN [sent |-> <<Xmit(via, RstHeader(c.dport, dest_port,
                                   htonl(Sub32(ntohl(tmp.skb[1].ack_seq),
                                               c.syn_proxy_seq.delta))))>>,
              ack_skb |-> skb_queue_tail(tmp.list, tmp.skb[1])]
        ELSE IF c.state = IP_VS_TCP_S_ESTABLISHED
        THEN [sent |-> <<Xmit(via, RstHeader(c.dport, dest_port, c.rs_end_seq))>>,
              ack_skb |-> tmp.list]
        ELSE [sent |-> <<>>, ack_skb |-> tmp.list]

\* tcp_send_rst_out(pp, cp): the packets handed to the response xmit function
\* and the flow's ACK queue after the call
tcp_send_rst_out(c, alloc_ok) ==
    LET via == IF IP_VS_CONN_F_FULLNAT \in c.flags
               THEN "ip_vs_fnat_response_xmit" ELSE "ip_vs_normal_response_xmit"
        dest_port == IF IP_VS_CONN_F_FULLNAT \in c.flags THEN c.lport ELSE c.cport
        tmp == IF c.state = IP_VS_TCP_S_SYN_SENT THEN skb_dequeue(c.ack_skb)
               ELSE [skb |-> <<>>, list |-> c.ack_skb]
    IN  IF ~alloc_ok THEN [sent |-> <<>>, ack_skb |-> c.ack_skb]
        ELSE IF tmp.skb # <<>>
        THEN [sent |-> <<Xmit(via, RstHeader(c.dport, dest_port,
                                   htonl(Sub32(ntohl(tmp.skb[1].ack_seq),
                                               c.syn_proxy_seq.delta))))>>,
              ack_skb |-> skb_queue_head(tmp.list, tmp.skb[1])]
        ELSE IF c.state = IP_VS_TCP_S_ESTABLISHED
        THEN [sent |-> <<Xmit(via, RstHeader(c.dport, dest_port, c.rs_end_seq))>>,
              ack_skb |-> tmp.list]
        ELSE [sent |-> <<>>, ack_skb |-> tmp.list]

\* the flow is still in the table: it expires once
Alive == op.name # "conn_expire"

\* tcp_conn_expire_handler(pp, cp); alloc_in and alloc_out are whether the
\* alloc_skb of tcp_send_rst_in and of tcp_send_rst_out return a buffer
tcp_conn_expire_handler(alloc_in, alloc_out) ==
    /\ Alive
    /\ IF /\ sysctl.conn_expire_tcp_rst # 0
          /\ cp.flags \cap {IP_VS_CONN_F_FULLNAT, IP_VS_CONN_F_MASQ} # {}
       THEN LET rs == tcp_send_rst_in(cp, alloc_in)
                cl == tcp_send_rst_out([cp EXCEPT !.ack_skb = rs.ack_skb],
                                        alloc_out)
            IN  /\ xmit' = xmit \o rs.sent \o cl.sent
                /\ cp' = [cp EXCEPT !.ack_skb = cl.ack_skb]
       ELSE UNCHANGED <<cp, xmit>>
    /\ op' = [Op("conn_expire", 0) EXCEPT !.alloc = <<alloc_in, alloc_out>>]
    /\ UNCHANGED <<dest, tcp_state_table, sysctl, skb_in, skb, esmib,
                   tcp_apps, appcnt, tcp_app_lock, cpu>>

\* the most ACK packets the SYN-proxy holds on a flow's queue
MaxAckSkb == 2

\* the SYN-proxy queues a client's ACK on cp->ack_skb and records its delta
ip_vs_synproxy_ack_rcv(pkt, delta) ==
    /\ Len(cp.ack_skb) < MaxAckSkb
    /\ cp' = [cp EXCEPT !.ack_skb = Append(@, pkt), !.syn_proxy_seq.delta = delta]
    /\ op' = Op("synproxy_ack_rcv", 1)
    /\ UNCHANGED <<dest, tcp_state_table, sysctl, skb_in, skb, xmit, esmib,
                   tcp_apps, appcnt, tcp_app_lock, cpu>>

-----------------------------------------------------------------------------
(* Scheduling a packet that matches no flow                                *)

\* the most packets the stray-VIP shield counts
MaxTcpDrop == 2

\* tcp_conn_schedule with one of its tests left out: "anysyn" takes every
\* segment with SYN for a new connection, "noswitch" shields the virtual
\* addresses whatever sysctl_ip_vs_tcp_drop_entry says
tcp_conn_schedule_altered(pkt, claimed, svc, todrop, sched, leave, vip, how) ==
    LET Out(ret, verdict, cpp, calls, drops) ==
            [ret |-> ret, verdict |-> verdict, cpp |-> cpp, calls |-> calls,
             drops |-> drops]
        pure == /\ pkt.syn = 1
                /\ how = "anysyn" \/ (pkt.ack = 0 /\ pkt.fin = 0 /\ pkt.rst = 0)
        shield == how = "noswitch" \/ sysctl.tcp_drop_entry # 0
        c0 == <<<<"ip_vs_synproxy_ack_rcv", IF claimed THEN "0" ELSE "1">>>>
        c1 == IF pure
              THEN c0 \o <<<<"ip_vs_service_get", IF svc THEN "svc" ELSE "NULL">>>>
              ELSE c0
        r == IF pkt.short = 1 THEN Out(0, "NF_DROP", FALSE, <<>>, 0)
             ELSE IF claimed THEN Out(0, "ip_vs_synproxy_ack_rcv", FALSE, c0, 0)
             ELSE IF pure /\ svc
             THEN IF todrop
                  THEN Out(0, "NF_DROP", FALSE, c1 \o <<<<"ip_vs_todrop", "1">>>>, 0)
                  ELSE IF ~sched
                  THEN Out(0, leave, FALSE,
                           c1 \o <<<<"ip_vs_todrop", "0">>,
                                   <<"ip_vs_schedule", "NULL">>,
                                   <<"ip_vs_leave", leave>>>>, 0)
                  ELSE Out(1, "", TRUE,
                           c1 \o <<<<"ip_vs_todrop", "0">>,
                                   <<"ip_vs_schedule", "cp">>>>, 0)
             ELSE IF shield /\ vip
             THEN Out(0, "NF_DROP", FALSE, c1 \o <<<<"ip_vs_lookup_vip", "svc">>>>, 1)
             ELSE Out(1, "", FALSE,
                      c1 \o (IF shield THEN <<<<"ip_vs_lookup_vip", "NULL">>>>
                             ELSE <<>>), 0)
    IN  /\ esmib.DEFENCE_TCP_DROP < MaxTcpDrop
        /\ skb_in' = pkt
        /\ skb' = pkt
        /\ op' = [Op("conn_schedule", r.ret) EXCEPT
                    !.verdict = r.verdict, !.cpp = r.cpp, !.calls = r.calls,
                    !.env = Rec([claimed |-> claimed, svc |-> svc, vip |-> vip,
                                 todrop |-> todrop])]
        /\ esmib' = [esmib EXCEPT !.DEFENCE_TCP_DROP = @ + r.drops]
        /\ UNCHANGED <<cp, dest, tcp_state_table, sysctl, xmit,
                       tcp_apps, appcnt, tcp_app_lock, cpu>>

tcp_conn_schedule_anysyn(pkt, claimed, svc, todrop, sched, leave, vip) ==
    tcp_conn_schedule_altered(pkt, claimed, svc, todrop, sched, leave, vip, "anysyn")

tcp_conn_schedule_noswitch(pkt, claimed, svc, todrop, sched, leave, vip) ==
    tcp_conn_schedule_altered(pkt, claimed, svc, todrop, sched, leave, vip,
                              "noswitch")

\* tcp_conn_schedule(af, skb, pp, verdict, cpp) for a packet that matched no
\* flow.  What stands outside this file is an input: whether the SYN-proxy
\* hook claims the packet (it then returns 0 and the verdict is its own),
\* whether a service matches the destination (svc), whether admission control
\* reports overload (todrop), whether the scheduler makes a flow (sched), the
\* verdict of the service's leave policy (leave), and whether the destination
\* address is a registered virtual address (vip).  op.verdict is "" while
\* *verdict was not written; op.calls lists the calls made, with results.
tcp_conn_schedule(pkt, claimed, svc, todrop, sched, leave, vip) ==
    LET Out(ret, verdict, cpp, calls, drops) ==
            [ret |-> ret, verdict |-> verdict, cpp |-> cpp, calls |-> calls,
             drops |-> drops]
        pure == pkt.syn = 1 /\ pkt.ack = 0 /\ pkt.fin = 0 /\ pkt.rst = 0
        c0 == <<<<"ip_vs_synproxy_ack_rcv", IF claimed THEN "0" ELSE "1">>>>
        c1 == IF pure
              THEN c0 \o <<<<"ip_vs_service_get", IF svc THEN "svc" ELSE "NULL">>>>
              ELSE c0
        r == IF pkt.short = 1 THEN Out(0, "NF_DROP", FALSE, <<>>, 0)
             ELSE IF claimed THEN Out(0, "ip_vs_synproxy_ack_rcv", FALSE, c0, 0)
             ELSE IF pure /\ svc
             THEN IF todrop
                  THEN Out(0, "NF_DROP", FALSE, c1 \o <<<<"ip_vs_todrop", "1">>>>, 0)
                  ELSE IF ~sched
                  THEN Out(0, leave, FALSE,
                           c1 \o <<<<"ip_vs_todrop", "0">>,
                                   <<"ip_vs_schedule", "NULL">>,
                                   <<"ip_vs_leave", leave>>>>, 0)
                  ELSE Out(1, "", TRUE,
                           c1 \o <<<<"ip_vs_todrop", "0">>,
                                   <<"ip_vs_schedule", "cp">>>>, 0)
             ELSE IF sysctl.tcp_drop_entry # 0 /\ vip
             THEN Out(0, "NF_DROP", FALSE, c1 \o <<<<"ip_vs_lookup_vip", "svc">>>>, 1)
             ELSE Out(1, "", FALSE,
                      c1 \o (IF sysctl.tcp_drop_entry # 0
                             THEN <<<<"ip_vs_lookup_vip", "NULL">>>> ELSE <<>>), 0)
    IN  /\ esmib.DEFENCE_TCP_DROP < MaxTcpDrop
        /\ skb_in' = pkt
        /\ skb' = pkt
        /\ op' = [Op("conn_schedule", r.ret) EXCEPT
                    !.verdict = r.verdict, !.cpp = r.cpp, !.calls = r.calls,
                    !.env = Rec([claimed |-> claimed, svc |-> svc, vip |-> vip,
                                 todrop |-> todrop])]
        /\ esmib' = [esmib EXCEPT !.DEFENCE_TCP_DROP = @ + r.drops]
        /\ UNCHANGED <<cp, dest, tcp_state_table, sysctl, xmit,
                       tcp_apps, appcnt, tcp_app_lock, cpu>>

-----------------------------------------------------------------------------
(* The helper table and the cores                                          *)

TCP_APP_TAB_SIZE == 16

\* the empty helper table
NoApps == [hash \in 0 .. TCP_APP_TAB_SIZE - 1 |-> <<>>]

\* the cores that run calls side by side
Cores == {1, 2}

\* where a core's call stands: the step it is at, what it works on, what it
\* has read or will return
Core(pc, arg, val) == [pc |-> pc, arg |-> arg, val |-> val]

Idle == Core("idle", <<>>, <<>>)

\* tcp_app_hashkey(port): the port is kept in wire order and read as a u16
\* of the little-endian machine the file is built for
tcp_app_hashkey(port) ==
    LET u == port[1] + 256 * port[2]
        a == (u \div 16) % 16
        b == u % 16
        bit(x, k) == (x \div (2 ^ k)) % 2
    IN  ((bit(a, 0) + bit(b, 0)) % 2) + 2 * ((bit(a, 1) + bit(b, 1)) % 2)
        + 4 * ((bit(a, 2) + bit(b, 2)) % 2) + 8 * ((bit(a, 3) + bit(b, 3)) % 2)

\* struct ip_vs_app: a helper incarnation with its port and, in init_conn,
\* the result of its init_conn callback if it has one
Inc(name, port, init_conn) == [name |-> name, port |-> port, init_conn |-> init_conn]

\* the helpers that are on some list of the table
Registered == UNION {{tcp_apps[h][k] : k \in 1 .. Len(tcp_apps[h])} :
                        h \in DOMAIN tcp_apps}

\* tcp_register_app without the scan for the port
tcp_register_app_nodup(core, inc) ==
    LET hash == tcp_app_hashkey(inc.port)
        me == cpu[core]
    IN  \/ /\ me = Idle
           /\ tcp_app_lock = 0
           /\ tcp_app_lock' = core
           /\ cpu' = [cpu EXCEPT ![core] = Core("register_app:locked", <<inc>>, <<>>)]
           /\ UNCHANGED <<cp, dest, tcp_state_table, sysctl, skb_in, skb, op, xmit,
                          esmib, tcp_apps, appcnt>>
        \/ /\ me.pc = "register_app:locked"
           /\ me.arg = <<inc>>
           /\ cpu' = [cpu EXCEPT ![core] = Core("register_app:add", <<inc>>, <<>>)]
           /\ UNCHANGED <<cp, dest, tcp_state_table, sysctl, skb_in, skb, op, xmit,
                          esmib, tcp_apps, appcnt, tcp_app_lock>>
        \/ /\ me.pc = "register_app:add"
           /\ me.arg = <<inc>>
           /\ tcp_apps' = [tcp_apps EXCEPT ![hash] = <<inc>> \o @]
           /\ appcnt' = appcnt + 1
           /\ cpu' = [cpu EXCEPT ![core] = Core("register_app:out", <<inc>>, <<0>>)]
           /\ UNCHANGED <<cp, dest, tcp_state_table, sysctl, skb_in, skb, op, xmit,
                          esmib, tcp_app_lock>>
        \/ /\ me.pc = "register_app:out"
           /\ me.arg = <<inc>>
           /\ tcp_app_lock' = 0
           /\ cpu' = [cpu EXCEPT ![core] = Idle]
           /\ op' = [Op("register_app", me.val[1]) EXCEPT !.env = inc]
           /\ UNCHANGED <<cp, dest, tcp_state_table, sysctl, skb_in, skb, xmit,
                          esmib, tcp_apps, appcnt>>

\* tcp_register_app(inc) on a core, a step at a time: spin_lock_bh, the scan
\* of the port's list, list_add with atomic_inc, spin_unlock_bh and return.
\* -EEXIST is -17.
tcp_register_app(core, inc) ==
    LET hash == tcp_app_hashkey(inc.port)
        me == cpu[core]
        EEXIST == 17
    IN  \/ /\ me = Idle
           /\ tcp_app_lock = 0
           /\ tcp_app_lock' = core
           /\ cpu' = [cpu EXCEPT ![core] = Core("register_app:locked", <<inc>>, <<>>)]
           /\ UNCHANGED <<cp, dest, tcp_state_table, sysctl, skb_in, skb, op, xmit,
                          esmib, tcp_apps, appcnt>>
        \/ /\ me.pc = "register_app:locked"
           /\ me.arg = <<inc>>
           /\ cpu' = [cpu EXCEPT ![core] =
                        IF \E k \in 1 .. Len(tcp_apps[hash]) :
                              tcp_apps[hash][k].port = inc.port
                        THEN Core("register_app:out", <<inc>>, <<-EEXIST>>)
                        ELSE Core("register_app:add", <<inc>>, <<>>)]
           /\ UNCHANGED <<cp, dest, tcp_state_table, sysctl, skb_in, skb, op, xmit,
                          esmib, tcp_apps, appcnt, tcp_app_lock>>
        \/ /\ me.pc = "register_app:add"
           /\ me.arg = <<inc>>
           /\ tcp_apps' = [tcp_apps EXCEPT ![hash] = <<inc>> \o @]
           /\ appcnt' = appcnt + 1
           /\ cpu' = [cpu EXCEPT ![core] = Core("register_app:out", <<inc>>, <<0>>)]
           /\ UNCHANGED <<cp, dest, tcp_state_table, sysctl, skb_in, skb, op, xmit,
                          esmib, tcp_app_lock>>
        \/ /\ me.pc = "register_app:out"
           /\ me.arg = <<inc>>
           /\ tcp_app_lock' = 0
           /\ cpu' = [cpu EXCEPT ![core] = Idle]
           /\ op' = [Op("register_app", me.val[1]) EXCEPT !.env = inc]
           /\ UNCHANGED <<cp, dest, tcp_state_table, sysctl, skb_in, skb, xmit,
                          esmib, tcp_apps, appcnt>>

\* tcp_unregister_app(inc) on a core: spin_lock_bh; atomic_dec and list_del;
\* spin_unlock_bh.  Its caller hands it a helper that is registered and that
\* no other core is unregistering.
tcp_unregister_app(core, inc) ==
    LET me == cpu[core]
    IN  \/ /\ me = Idle
           /\ tcp_app_lock = 0
           /\ inc \in Registered
           /\ tcp_app_lock' = core
           /\ cpu' = [cpu EXCEPT ![core] = Core("unregister_app:locked", <<inc>>, <<>>)]
           /\ UNCHANGED <<cp, dest, tcp_state_table, sysctl, skb_in, skb, op, xmit,
                          esmib, tcp_apps, appcnt>>
        \/ /\ me.pc = "unregister_app:locked"
           /\ me.arg = <<inc>>
           /\ appcnt' = appcnt - 1
           /\ tcp_apps' = [h \in DOMAIN tcp_apps |->
                             SelectSeq(tcp_apps[h], LAMBDA i : i # inc)]
           /\ cpu' = [cpu EXCEPT ![core] = Core("unregister_app:out", <<inc>>, <<>>)]
           /\ UNCHANGED <<cp, dest, tcp_state_table, sysctl, skb_in, skb, op, xmit,
                          esmib, tcp_app_lock>>
        \/ /\ me.pc = "unregister_app:out"
           /\ me.arg = <<inc>>
           /\ tcp_app_lock' = 0
           /\ cpu' = [cpu EXCEPT ![core] = Idle]
           /\ op' = [Op("unregister_app", 0) EXCEPT !.env = inc]
           /\ UNCHANGED <<cp, dest, tcp_state_table, sysctl, skb_in, skb, xmit,
                          esmib, tcp_apps, appcnt>>

\* tcp_app_conn_bind that leaves out the test of the forwarding method
tcp_app_conn_bind_anyfwd(core, got) ==
    LET list == tcp_apps[tcp_app_hashkey(cp.vport)]
        me == cpu[core]
        hits == {k \in 1 .. Len(list) : list[k].port = cp.vport}
        first == CHOOSE k \in hits : \A j \in hits : k <= j
    IN  \/ /\ me = Idle
           /\ tcp_app_lock = 0
           /\ tcp_app_lock' = core
           /\ cpu' = [cpu EXCEPT ![core] = Core("app_conn_bind:locked", <<>>, <<>>)]
           /\ UNCHANGED <<cp, dest, tcp_state_table, sysctl, skb_in, skb, op, xmit,
                          esmib, tcp_apps, appcnt>>
        \/ /\ me.pc = "app_conn_bind:locked"
           /\ tcp_app_lock' = 0
           /\ IF hits # {} /\ got
              THEN /\ cpu' = [cpu EXCEPT ![core] =
                                Core("app_conn_bind:bound", <<list[first]>>, <<>>)]
                   /\ UNCHANGED op
              ELSE /\ cpu' = [cpu EXCEPT ![core] = Idle]
                   /\ op' = Op("app_conn_bind", 0)
           /\ UNCHANGED <<cp, dest, tcp_state_table, sysctl, skb_in, skb, xmit,
                          esmib, tcp_apps, appcnt>>
        \/ /\ me.pc = "app_conn_bind:bound"
           /\ got
           /\ cp' = [cp EXCEPT !.app = TRUE]
           /\ cpu' = [cpu EXCEPT ![core] = Idle]
           /\ op' = [Op("app_conn_bind",
                        IF me.arg[1].init_conn # <<>> THEN me.arg[1].init_conn[1]
                        ELSE 0)
                     EXCEPT !.env = me.arg[1]]
           /\ UNCHANGED <<dest, tcp_state_table, sysctl, skb_in, skb, xmit,
                          esmib, tcp_apps, appcnt, tcp_app_lock>>

\* tcp_app_conn_bind(cp) on a core: the test of the forwarding method;
\* spin_lock; the scan of the virtual port's list, which ends unlocked
\* whether no helper matches, ip_vs_app_inc_get fails (got is its result) or
\* the helper was acquired; then cp->app = inc and init_conn, off the lock.
\* Only the scan reads got; the other steps are taken for got = TRUE alone.
tcp_app_conn_bind(core, got) ==
    LET list == tcp_apps[tcp_app_hashkey(cp.vport)]
        me == cpu[core]
        hits == {k \in 1 .. Len(list) : list[k].port = cp.vport}
        first == CHOOSE k \in hits : \A j \in hits : k <= j
    IN  \/ /\ me = Idle
           /\ IP_VS_CONN_F_MASQ \notin cp.flags
           /\ got
           /\ op' = Op("app_conn_bind", 0)
           /\ UNCHANGED <<cp, dest, tcp_state_table, sysctl, skb_in, skb, xmit,
                          esmib, tcp_apps, appcnt, tcp_app_lock, cpu>>
        \/ /\ me = Idle
           /\ IP_VS_CONN_F_MASQ \in cp.flags
           /\ got
           /\ tcp_app_lock = 0
           /\ tcp_app_lock' = core
           /\ cpu' = [cpu EXCEPT ![core] = Core("app_conn_bind:locked", <<>>, <<>>)]
           /\ UNCHANGED <<cp, dest, tcp_state_table, sysctl, skb_in, skb, op, xmit,
                          esmib, tcp_apps, appcnt>>
        \/ /\ me.pc = "app_conn_bind:locked"
           /\ tcp_app_lock' = 0
           /\ IF hits # {} /\ got
              THEN /\ cpu' = [cpu EXCEPT ![core] =
                                Core("app_conn_bind:bound", <<list[first]>>, <<>>)]
                   /\ UNCHANGED op
              ELSE /\ cpu' = [cpu EXCEPT ![core] = Idle]
                   /\ op' = Op("app_conn_bind", 0)
           /\ UNCHANGED <<cp, dest, tcp_state_table, sysctl, skb_in, skb, xmit,
                          esmib, tcp_apps, appcnt>>
        \/ /\ me.pc = "app_conn_bind:bound"
           /\ got
           /\ cp' = [cp EXCEPT !.app = TRUE]
           /\ cpu' = [cpu EXCEPT ![core] = Idle]
           /\ op' = [Op("app_conn_bind",
                        IF me.arg[1].init_conn # <<>> THEN me.arg[1].init_conn[1]
                        ELSE 0)
                     EXCEPT !.env = me.arg[1]]
           /\ UNCHANGED <<dest, tcp_state_table, sysctl, skb_in, skb, xmit,
                          esmib, tcp_apps, appcnt, tcp_app_lock>>

-----------------------------------------------------------------------------
(* Checksums.  A __wsum is kept by its 16-bit one's-complement fold, which *)
(* is all that csum_fold reads of it; 16-bit words are taken in wire order *)

\* csum_partial(buff, len, sum) and skb_checksum: sum added to the 16-bit
\* words of the bytes, an odd last byte padded with zero, carries wrapped
RECURSIVE csum_partial(_, _)
csum_partial(bytes, sum) ==
    IF bytes = <<>> THEN sum
    ELSE LET w == bytes[1] * 256 + (IF Len(bytes) > 1 THEN bytes[2] ELSE 0)
             t == sum + w
         IN  csum_partial(SubSeq(bytes, 3, Len(bytes)),
                          IF t > 65535 THEN t - 65535 ELSE t)

\* csum_fold(sum): the complement of the folded sum
csum_fold(sum) == 65535 - sum

\* csum_tcpudp_magic(saddr, daddr, len, IPPROTO_TCP, sum)
csum_tcpudp_magic(saddr, daddr, len, sum) ==
    csum_fold(csum_partial(saddr \o daddr \o <<0, 6>> \o htons(len), sum))

\* the bytes of the TCP header and data that skb_checksum(skb, tcphoff, ...)
\* sums: ports, sequence numbers, data offset, flags, window, check, urgent
\* pointer, options and payload
TcpBytes(th) ==
    th.source \o th.dest \o th.seq \o th.ack_seq
    \o <<(th.doff * 16) % 256, th.fin + 2 * th.syn + 4 * th.rst + 16 * th.ack>>
    \o <<0, 0>> \o htons(th.check) \o <<0, 0>> \o th.data

\* tcp_fast_csum_update without the port delta
tcp_fast_csum_update_noport(check, oldip, newip, oldport, newport) ==
    LET Not(b) == [i \in DOMAIN b |-> 255 - b[i]]
        unfolded == IF check = 65535 THEN 65535 ELSE 65535 - check
    IN  csum_fold(csum_partial(Not(oldip) \o newip, unfolded))

\* tcp_fast_csum_update(af, tcph, oldip, newip, oldport, newport), AF_INET:
\* the new tcph->check.  ip_vs_check_diff2 / ip_vs_check_diff4 add the
\* complement of the old value and the new value to the sum; the 32-bit
\* ~csum_unfold(check) folds to the complement of check, 0xffff for 0xffff.
tcp_fast_csum_update(check, oldip, newip, oldport, newport) ==
    LET Not(b) == [i \in DOMAIN b |-> 255 - b[i]]
        unfolded == IF check = 65535 THEN 65535 ELSE 65535 - check
        diff2 == csum_partial(Not(oldport) \o newport, unfolded)
    IN  csum_fold(csum_partial(Not(oldip) \o newip, diff2))

\* tcp_partial_csum_update(af, tcph, oldip, newip, oldlen, newlen), AF_INET
tcp_partial_csum_update(check, oldip, newip, oldlen, newlen) ==
    LET Not(b) == [i \in DOMAIN b |-> 255 - b[i]]
        diff2 == csum_partial(Not(oldlen) \o newlen, check)
    IN  65535 - csum_fold(csum_partial(Not(oldip) \o newip, diff2))

\* the segment th as it arrives from saddr for daddr with the marker
\* ip_summed and the tcph->check that goes with it: the pseudo-header sum,
\* not complemented, under CHECKSUM_PARTIAL, else the full TCP checksum
CsumSegment(th, ip_summed, saddr, daddr) ==
    LET blank == Rec([short |-> th.short, source |-> th.source, dest |-> th.dest,
                      seq |-> th.seq, ack_seq |-> th.ack_seq, doff |-> th.doff,
                      syn |-> th.syn, ack |-> th.ack, fin |-> th.fin,
                      rst |-> th.rst, data |-> th.data, tot_len |-> th.tot_len,
                      check |-> 0, ip_summed |-> ip_summed])
        len == 20 + Len(th.data)
    IN  [blank EXCEPT !.check =
            IF ip_summed = "CHECKSUM_PARTIAL"
            THEN 65535 - csum_tcpudp_magic(saddr, daddr, len, 0)
            ELSE csum_tcpudp_magic(saddr, daddr, len,
                                   csum_partial(TcpBytes(blank), 0))]

\* tcp_snat_handler with its checksum section (lines 320-353).  th comes
\* from the backend; grow says that ip_vs_app_pkt_out added a byte of
\* payload; the SYN-proxy hook lets the segment pass as it is.
SnatOutCsum(th, ip_summed, grow) ==
    LET pkt == CsumSegment([th EXCEPT !.source = cp.dport, !.dest = cp.cport],
                           ip_summed, cp.daddr, cp.caddr)
        mangled == IF cp.app /\ grow
                   THEN [pkt EXCEPT !.data = @ \o <<7>>, !.tot_len = @ + 1]
                   ELSE pkt
        r == tcp_snat_handler(sysctl, cp, mangled, "ok", 1)
        oldlen == 20 + Len(pkt.data)
        newlen == 20 + Len(r.th.data)
        out == IF r.ret = 0 THEN r.th
               ELSE IF r.th.ip_summed = "CHECKSUM_PARTIAL"
               THEN [r.th EXCEPT !.check =
                        tcp_partial_csum_update(@, cp.daddr, cp.vaddr,
                                                htons(oldlen), htons(newlen))]
               ELSE IF ~cp.app
               THEN [r.th EXCEPT
                        !.check = tcp_fast_csum_update(@, cp.daddr, cp.vaddr,
                                                       cp.dport, cp.vport),
                        !.ip_summed = IF @ = "CHECKSUM_COMPLETE"
                                      THEN "CHECKSUM_NONE" ELSE @]
               ELSE [r.th EXCEPT !.check =
                        csum_tcpudp_magic(cp.vaddr, cp.caddr, newlen,
                            csum_partial(TcpBytes([r.th EXCEPT !.check = 0]), 0))]
    IN  /\ IP_VS_CONN_F_MASQ \in cp.flags
        /\ cp.app \/ ~grow
        /\ Ran("snat", pkt, [r EXCEPT !.th = out])

\* tcp_dnat_handler with its checksum section (lines 691-723); th comes from
\* the client; grow says that ip_vs_app_pkt_in added a byte of payload
DnatInCsum(th, ip_summed, grow) ==
    LET pkt == CsumSegment([th EXCEPT !.source = cp.cport, !.dest = cp.vport],
                           ip_summed, cp.caddr, cp.vaddr)
        mangled == IF cp.app /\ grow
                   THEN [pkt EXCEPT !.data = @ \o <<7>>, !.tot_len = @ + 1]
                   ELSE pkt
        r == tcp_dnat_handler(sysctl, cp, mangled, "ok")
        oldlen == 20 + Len(pkt.data)
        newlen == 20 + Len(r.th.data)
        out == IF r.ret = 0 THEN r.th
               ELSE IF r.th.ip_summed = "CHECKSUM_PARTIAL"
               THEN [r.th EXCEPT !.check =
                        tcp_partial_csum_update(@, cp.vaddr, cp.daddr,
                                                htons(oldlen), htons(newlen))]
               ELSE IF ~cp.app
               THEN [r.th EXCEPT
                        !.check = tcp_fast_csum_update(@, cp.vaddr, cp.daddr,
                                                       cp.vport, cp.dport),
                        !.ip_summed = IF @ = "CHECKSUM_COMPLETE"
                                      THEN "CHECKSUM_NONE" ELSE @]
               ELSE [r.th EXCEPT
                        !.check =
                            csum_tcpudp_magic(cp.caddr, cp.daddr, newlen,
                                csum_partial(TcpBytes([r.th EXCEPT !.check = 0]), 0)),
                        !.ip_summed = "CHECKSUM_UNNECESSARY"]
    IN  /\ IP_VS_CONN_F_MASQ \in cp.flags
        /\ cp.app \/ ~grow
        /\ Ran("dnat", pkt, [r EXCEPT !.th = out])

\* tcp_fnat_in_handler with its checksum section (lines 791-806): always the
\* full calculation, and the marker set to CHECKSUM_UNNECESSARY
FnatInCsum(th, ip_summed, isn) ==
    LET pkt == CsumSegment([th EXCEPT !.source = cp.cport, !.dest = cp.vport],
                           ip_summed, cp.caddr, cp.vaddr)
        r == tcp_fnat_in_handler(sysctl, cp, pkt, "ok", isn, 1500, TRUE, 0)
        out == IF r.ret = 0 THEN r.th
               ELSE [r.th EXCEPT
                        !.check =
                            csum_tcpudp_magic(cp.laddr, cp.daddr,
                                20 + Len(r.th.data),
                                csum_partial(TcpBytes([r.th EXCEPT !.check = 0]), 0)),
                        !.ip_summed = "CHECKSUM_UNNECESSARY"]
    IN  /\ IP_VS_CONN_F_FULLNAT \in cp.flags
        /\ esmib.FULLNAT_ADD_TOA_OK < MaxToaOk
        /\ Ran("fnat_in", pkt, [r EXCEPT !.th = out])

\* tcp_fnat_out_handler with its checksum section (lines 404-418): always
\* the full calculation; the marker is left as it came
FnatOutCsum(th, ip_summed) ==
    LET pkt == CsumSegment([th EXCEPT !.source = cp.dport, !.dest = cp.lport],
                           ip_summed, cp.daddr, cp.laddr)
        r == tcp_fnat_out_handler(sysctl, cp, pkt, "ok", 1, 0)
        out == IF r.ret = 0 THEN r.th
               ELSE [r.th EXCEPT !.check =
                        csum_tcpudp_magic(cp.vaddr, cp.caddr, 20 + Len(r.th.data),
                            csum_partial(TcpBytes([r.th EXCEPT !.check = 0]), 0))]
    IN  /\ IP_VS_CONN_F_FULLNAT \in cp.flags
        /\ Ran("fnat_out", pkt, [r EXCEPT !.th = out])

(***************************************************************************)
(* One flow, several cores.  A packet's state transition runs under the   *)
(* flow lock; its handler and the reverse-path bookkeeping run without it, *)
(* so steps of other cores may fall between the steps of one packet.       *)
(***************************************************************************)

\* the counters tcp_in_init_seq bumps for a SYN that reuses the flow: the
\* second one is picked by the old_state the flow holds at that moment
conn_reused_stats(conn_reused_entry, c) ==
    LET reused == /\ conn_reused_entry = 1
                  /\ c.fnat_seq.init_seq # Zero32
                  /\ c.state \in {IP_VS_TCP_S_SYN_RECV, IP_VS_TCP_S_SYN_SENT}
    IN  IF ~reused THEN <<>>
        ELSE <<"FULLNAT_CONN_REUSED",
               CASE c.old_state = IP_VS_TCP_S_CLOSE -> "FULLNAT_CONN_REUSED_CLOSE"
                 [] c.old_state = IP_VS_TCP_S_TIME_WAIT ->
                        "FULLNAT_CONN_REUSED_TIMEWAIT"
                 [] c.old_state = IP_VS_TCP_S_FIN_WAIT ->
                        "FULLNAT_CONN_REUSED_FINWAIT"
                 [] c.old_state = IP_VS_TCP_S_CLOSE_WAIT ->
                        "FULLNAT_CONN_REUSED_CLOSEWAIT"
                 [] c.old_state = IP_VS_TCP_S_LAST_ACK ->
                        "FULLNAT_CONN_REUSED_LASTACK"
                 [] c.old_state = IP_VS_TCP_S_ESTABLISHED ->
                        "FULLNAT_CONN_REUSED_ESTAB"
                 [] OTHER -> "">>

\* the counter the reuse accounting picks for a flow that was in state s
ReusedFrom(s) ==
    conn_reused_stats(1, [fnat_seq |-> [init_seq |-> One32],
                          state |-> IP_VS_TCP_S_SYN_RECV, old_state |-> s])[2]

\* an ingress packet of the flow on one core: first its state transition,
\* the whole of set_tcp_state under cp->lock, then the FNAT-in handler,
\* which takes no lock; val keeps the state the flow had before the
\* packet's own transition
CoreFnatIn(core, pkt, isn) ==
    LET me == cpu[core]
    IN  \/ /\ me = Idle
           /\ LET r == set_tcp_state(cp, dest, tcp_state_table,
                                     IP_VS_DIR_INPUT, pkt)
              IN  /\ cp' = r.cp
                  /\ dest' = r.dest
           /\ cpu' = [cpu EXCEPT
                         ![core] = Core("fnat_in", <<pkt, isn>>, <<cp.state>>)]
           /\ UNCHANGED <<tcp_state_table, sysctl, skb_in, skb, op, xmit,
                          esmib, tcp_apps, appcnt, tcp_app_lock>>
        \/ /\ me.pc = "fnat_in"
           /\ me.arg = <<pkt, isn>>
           /\ esmib.FULLNAT_ADD_TOA_OK < MaxToaOk
           /\ LET r == tcp_fnat_in_handler(sysctl, cp, pkt, "ok", isn, 1500,
                                           TRUE, 0)
                  \* tcp_in_init_seq runs for tcph->syn & !tcph->ack
                  stats == IF pkt.syn = 1 /\ pkt.ack = 0
                           THEN conn_reused_stats(sysctl.conn_reused_entry, cp)
                           ELSE <<>>
              IN  /\ cp' = r.cp
                  /\ skb_in' = pkt
                  /\ skb' = r.th
                  /\ op' = [Op("fnat_in:core", r.ret) EXCEPT
                               !.toa = r.toa, !.walks = r.walks,
                               !.calls = stats, !.env = me.val]
                  /\ esmib' = IF r.toa
                               THEN [esmib EXCEPT !.FULLNAT_ADD_TOA_OK = @ + 1]
                               ELSE esmib
           /\ cpu' = [cpu EXCEPT ![core] = Idle]
           /\ UNCHANGED <<dest, tcp_state_table, sysctl, xmit,
                          tcp_apps, appcnt, tcp_app_lock>>

\* an egress segment of the flow on one core: tcp_fnat_out_handler with the
\* reads and writes of tcp_save_out_seq as separate steps, none of them
\* under a lock: the out-of-order test, the store to rs_end_seq, the store
\* to rs_ack_seq; the rest of the handler leaves the flow alone and ends
\* the last step
CoreFnatOut(core, pkt) ==
    LET me == cpu[core]
        saves == sysctl.conn_expire_tcp_rst # 0 /\ pkt.rst = 0
        skips == /\ before(ntohl(pkt.ack_seq), ntohl(cp.rs_ack_seq))
                 /\ cp.rs_ack_seq # BeZero
        rest == tcp_fnat_out_handler([sysctl EXCEPT !.conn_expire_tcp_rst = 0],
                                     cp', pkt, "ok", 1, 0)
        done == /\ skb_in' = pkt
                /\ skb' = rest.th
                /\ op' = [Op("fnat_out:core", rest.ret) EXCEPT
                             !.walks = rest.walks]
                /\ cpu' = [cpu EXCEPT ![core] = Idle]
    IN  \/ /\ me = Idle
           /\ ~saves \/ skips
           /\ cp' = cp
           /\ done
           /\ UNCHANGED <<dest, tcp_state_table, sysctl, xmit, esmib,
                          tcp_apps, appcnt, tcp_app_lock>>
        \/ /\ me = Idle
           /\ saves /\ ~skips
           /\ cpu' = [cpu EXCEPT ![core] = Core("fnat_out:end", <<pkt>>, <<>>)]
           /\ UNCHANGED <<cp, dest, tcp_state_table, sysctl, skb_in, skb, op,
                          xmit, esmib, tcp_apps, appcnt, tcp_app_lock>>
        \/ /\ me.pc = "fnat_out:end"
           /\ me.arg = <<pkt>>
           /\ cp' = [cp EXCEPT
                        !.rs_end_seq =
                            IF pkt.syn = 1 /\ pkt.ack = 1
                            THEN htonl(Add32(ntohl(pkt.seq), One32))
                            ELSE htonl(AddInt32(ntohl(pkt.seq),
                                                PayloadLen(pkt)))]
           /\ cpu' = [cpu EXCEPT ![core] = Core("fnat_out:ack", <<pkt>>, <<>>)]
           /\ UNCHANGED <<dest, tcp_state_table, sysctl, skb_in, skb, op,
                          xmit, esmib, tcp_apps, appcnt, tcp_app_lock>>
        \/ /\ me.pc = "fnat_out:ack"
           /\ me.arg = <<pkt>>
           /\ cp' = [cp EXCEPT !.rs_ack_seq = pkt.ack_seq]
           /\ done
           /\ UNCHANGED <<dest, tcp_state_table, sysctl, xmit, esmib,
                          tcp_apps, appcnt, tcp_app_lock>>

\* the configuration words, all switched on or off as given
Sysctl(drop, mss, ts, toa, rst, reuse) ==
    [tcp_drop_entry |-> drop, mss_adjust_entry |-> mss,
     timestamp_remove_entry |-> ts, toa_entry |-> toa,
     conn_expire_tcp_rst |-> rst, conn_reused_entry |-> reuse]

Bit == {0, 1}

\* every combination of the four flags the state machine reads
FlagSegments ==
    {FlagSegment(s, a, f, r) : s \in Bit, a \in Bit, f \in Bit, r \in Bit}

-----------------------------------------------------------------------------
(* Inputs: sequence numbers, option pieces, segments                       *)

\* client sequence numbers: 100, 101, 0xFFFFFFFF
SeqVals == {U32(0, 100), U32(0, 101), U32(65535, 65535)}

\* what the secure sequence generator may return: 0, 0xDEADBEEF + 100
IsnVals == {Zero32, U32(57005, 48979)}

\* what the backend acknowledges: the sequence number after init_seq
AckVals == {Add32(isn, One32) : isn \in IsnVals}

\* the left edge of the first SACK block; the right edge is 1460 further
SackLeft == U32(1, 65000)

\* an n-block SACK option: block k is [SackLeft + 3000 k, SackLeft + 3000 k + 1460]
SackOpt(n) ==
    LET Block(k) == htonl(AddInt32(SackLeft, 3000 * k))
                    \o htonl(AddInt32(SackLeft, 3000 * k + 1460))
        RECURSIVE Blocks(_)
        Blocks(k) == IF k >= n THEN <<>> ELSE Block(k) \o Blocks(k + 1)
    IN  <<TCPOPT_SACK, TCPOLEN_SACK_BASE + TCPOLEN_SACK_PERBLOCK * n>> \o Blocks(0)

\* the most blocks a SACK option of the inputs carries
MaxSack == 4

\* the pieces option areas are put together from: nothing, EOL, NOP, two NOPs, MSS 1460,
\* a timestamp, window scale, a lone opcode, a size of 1, a size past the end
\* of the area, SACK with 1 to MaxSack blocks
OptPieces ==
    {<<>>, <<TCPOPT_EOL>>, <<TCPOPT_NOP>>, <<TCPOPT_NOP, TCPOPT_NOP>>,
     <<TCPOPT_MSS, TCPOLEN_MSS, 5, 180>>,
     <<TCPOPT_TIMESTAMP, TCPOLEN_TIMESTAMP, 0, 0, 0, 7, 0, 0, 0, 9>>,
     <<3, 3, 7>>, <<TCPOPT_SACK>>, <<TCPOPT_TIMESTAMP, 1>>, <<TCPOPT_SACK, 40>>}
    \cup {SackOpt(n) : n \in 1 .. MaxSack}

\* an option area is a whole number of 32-bit words, at most 40 bytes
IsOptArea(o) == Len(o) % 4 = 0 /\ Len(o) <= 40

\* payloads: none, or 24 bytes
Payloads == {<<>>, [i \in 1 .. 24 |-> 200 + i]}

\* a segment whose header length covers exactly the option area opts
OptSegment(syn, ack, fin, rst, seq, ack_seq, opts, payload) ==
    Segment(syn, ack, fin, rst, htonl(seq), htonl(ack_seq),
            5 + (Len(opts) \div 4), opts \o payload)

\* bytes a read past the end of the buffer may return
JunkBytes == {0, 6}

\* path MTUs: too small for the client-address option, and Ethernet's
MtuVals == {40, 1500}

-----------------------------------------------------------------------------
(* SpecOpt: a FullNAT flow whose segments carry all kinds of option areas  *)

InitOpt ==
    /\ cp = NewConn(IP_VS_CONN_F_FULLNAT, AF_INET, FALSE, TRUE, FALSE)
    /\ dest = NewDest
    /\ tcp_state_table = "tcp_states"
    /\ sysctl = Sysctl(0, 1, 1, 0, 0, 0)
    /\ skb_in = NoSegment
    /\ skb = NoSegment
    /\ op = Op("init", 0)
    /\ xmit = <<>>
    /\ esmib = NewStats
    /\ tcp_apps = NoApps
    /\ appcnt = 0
    /\ tcp_app_lock = 0
    /\ cpu = [core \in Cores |-> Idle]

\* client SYNs and backend SYN-ACKs and ACKs whose option area is two pieces
NextOpt ==
    \/ \E p1 \in OptPieces, p2 \in OptPieces, isn \in IsnVals, junk \in JunkBytes :
          /\ IsOptArea(p1 \o p2)
          /\ FnatIn(OptSegment(1, 0, 0, 0, U32(0, 100), Zero32, p1 \o p2, <<>>),
                    "ok", isn, 1500, TRUE, junk)
    \/ \E p1 \in OptPieces, p2 \in OptPieces, payload \in Payloads, syn \in Bit,
          junk \in JunkBytes :
          /\ IsOptArea(p1 \o p2)
          /\ FnatOut(OptSegment(syn, 1, 0, 0, U32(0, 900), U32(0, 101),
                                p1 \o p2, payload),
                     "ok", 1, junk)

SpecOpt == InitOpt /\ [][NextOpt]_vars

-----------------------------------------------------------------------------
(* SpecSeq: a FullNAT flow, its sequence record and the client-address     *)
(* option.  Reuse is configured or not for the whole run.                  *)

InitSeq ==
    /\ cp = NewConn(IP_VS_CONN_F_FULLNAT, AF_INET, FALSE, TRUE, FALSE)
    /\ dest = NewDest
    /\ tcp_state_table = "tcp_states"
    /\ \E reuse \in Bit : sysctl = Sysctl(0, 0, 0, 1, 0, reuse)
    /\ skb_in = NoSegment
    /\ skb = NoSegment
    /\ op = Op("init", 0)
    /\ xmit = <<>>
    /\ esmib = NewStats
    /\ tcp_apps = NoApps
    /\ appcnt = 0
    /\ tcp_app_lock = 0
    /\ cpu = [core \in Cores |-> Idle]

\* how the append of the client-address option may fail
ToaFailures == {"none", "mtu", "nomem"}

FnatInSeq(pkt, isn, fail) ==
    FnatIn(pkt, "ok", isn, IF fail = "mtu" THEN 40 ELSE 1500, fail # "nomem", 0)

NextSeq ==
    \/ \E seq \in SeqVals, isn \in IsnVals, fail \in ToaFailures :
          FnatInSeq(OptSegment(1, 0, 0, 0, seq, Zero32, <<>>, <<>>), isn, fail)
    \/ \E flags \in {<<1, 0, 0>>, <<1, 1, 0>>, <<0, 0, 1>>},
          seq \in SeqVals, fail \in ToaFailures :
          FnatInSeq(OptSegment(0, flags[1], flags[2], flags[3], seq, U32(0, 901),
                               <<>>, <<>>),
                    Zero32, fail)
    \/ \E syn \in Bit, ack_seq \in AckVals, verdict \in Bit :
          FnatOut(OptSegment(syn, 1, 0, 0, U32(0, 900), ack_seq, <<>>, <<>>),
                  "ok", verdict, 0)
    \/ \E pkt \in {FlagSegment(1, 0, 0, 0), FlagSegment(0, 1, 0, 0)} :
          tcp_state_transition(IP_VS_DIR_INPUT, pkt)

SpecSeq == InitSeq /\ [][NextSeq]_vars

-----------------------------------------------------------------------------
(* SpecToa: a FullNAT flow with toa_entry = 1 whose client segments carry  *)
(* option areas of every length the data offset can express.               *)

\* the words of options a header can carry: doff is 5 .. 15
OptWordCounts == 0 .. 10

\* an option area of w words: NOPs, behind an MSS option when mss is set
OptFill(w, mss) ==
    [i \in 1 .. 4 * w |->
        IF mss = 1 /\ i <= TCPOLEN_MSS
        THEN <<TCPOPT_MSS, TCPOLEN_MSS, 5, 180>>[i]
        ELSE TCPOPT_NOP]

InitToa ==
    /\ cp = NewConn(IP_VS_CONN_F_FULLNAT, AF_INET, FALSE, TRUE, FALSE)
    /\ dest = NewDest
    /\ tcp_state_table = "tcp_states"
    /\ sysctl = Sysctl(0, 0, 0, 1, 0, 0)
    /\ skb_in = NoSegment
    /\ skb = NoSegment
    /\ op = Op("init", 0)
    /\ xmit = <<>>
    /\ esmib = NewStats
    /\ tcp_apps = NoApps
    /\ appcnt = 0
    /\ tcp_app_lock = 0
    /\ cpu = [core \in Cores |-> Idle]

\* client SYNs, then client ACKs with or without payload
NextToa ==
    \/ \E w \in OptWordCounts, mss \in Bit, isn \in IsnVals, mtu \in MtuVals,
          alloc_ok \in BOOLEAN :
          FnatIn(OptSegment(1, 0, 0, 0, U32(0, 100), Zero32, OptFill(w, mss), <<>>),
                 "ok", isn, mtu, alloc_ok, 0)
    \/ \E w \in OptWordCounts, mss \in Bit, seq \in SeqVals, payload \in Payloads,
          mtu \in MtuVals :
          FnatIn(OptSegment(0, 1, 0, 0, seq, U32(0, 901), OptFill(w, mss), payload),
                 "ok", Zero32, mtu, TRUE, 0)

SpecToa == InitToa /\ [][NextToa]_vars

-----------------------------------------------------------------------------
(* SpecRevPath: the egress segments of a NAT or FullNAT flow while the     *)
(* reset on expiry is configured                                           *)

InitRevPath ==
    /\ \E fwd \in {IP_VS_CONN_F_MASQ, IP_VS_CONN_F_FULLNAT} :
          cp = NewConn(fwd, AF_INET, FALSE, TRUE, FALSE)
    /\ dest = NewDest
    /\ tcp_state_table = "tcp_states"
    /\ sysctl = Sysctl(0, 0, 0, 0, 1, 0)
    /\ skb_in = NoSegment
    /\ skb = NoSegment
    /\ op = Op("init", 0)
    /\ xmit = <<>>
    /\ esmib = NewStats
    /\ tcp_apps = NoApps
    /\ appcnt = 0
    /\ tcp_app_lock = 0
    /\ cpu = [core \in Cores |-> Idle]

\* what the backend acknowledges: 0, 100, 200, 100 + 2^31, 0xFFFFFF00
RevAckVals == {Zero32, U32(0, 100), U32(0, 200), U32(32768, 100), U32(65535, 65280)}

\* SYN-ACK, ACK, RST
RevFlags == {<<1, 1, 0>>, <<0, 1, 0>>, <<0, 0, 1>>}

\* how the handler's checks and the SYN-proxy hook end
RevOutcomes == {<<"ok", 1>>, <<"ok", 0>>, <<"nowrite", 1>>}

RevSegment(flags, ack_seq, payload) ==
    OptSegment(flags[1], flags[2], 0, flags[3], U32(0, 900), ack_seq, <<>>, payload)

NextRevPath ==
    \/ \E flags \in RevFlags, ack_seq \in RevAckVals, payload \in Payloads,
          o \in RevOutcomes :
          /\ IP_VS_CONN_F_MASQ \in cp.flags
          /\ SnatOut(RevSegment(flags, ack_seq, payload), o[1], o[2])
    \/ \E flags \in RevFlags, ack_seq \in RevAckVals, payload \in Payloads,
          o \in RevOutcomes :
          /\ IP_VS_CONN_F_FULLNAT \in cp.flags
          /\ FnatOut(RevSegment(flags, ack_seq, payload), o[1], o[2], 0)

SpecRevPath == InitRevPath /\ [][NextRevPath]_vars

-----------------------------------------------------------------------------
(* SpecExpire: a flow of any forwarding method is driven to some state and *)
(* then expires                                                            *)

InitExpire ==
    /\ \E fwd \in FwdMethods : cp = NewConn(fwd, AF_INET, FALSE, TRUE, FALSE)
    /\ dest = NewDest
    /\ tcp_state_table = "tcp_states"
    /\ \E rst \in Bit : sysctl = Sysctl(0, 0, 0, 0, rst, 0)
    /\ skb_in = NoSegment
    /\ skb = NoSegment
    /\ op = Op("init", 0)
    /\ xmit = <<>>
    /\ esmib = NewStats
    /\ tcp_apps = NoApps
    /\ appcnt = 0
    /\ tcp_app_lock = 0
    /\ cpu = [core \in Cores |-> Idle]

\* the segments that move the state: SYN in (SYN_RECV), SYN out (SYN_SENT),
\* ACK in (ESTABLISHED), RST in (CLOSE)
ExpireMoves ==
    {<<IP_VS_DIR_INPUT, FlagSegment(1, 0, 0, 0)>>,
     <<IP_VS_DIR_OUTPUT, FlagSegment(1, 0, 0, 0)>>,
     <<IP_VS_DIR_INPUT, FlagSegment(0, 1, 0, 0)>>,
     <<IP_VS_DIR_INPUT, FlagSegment(0, 0, 0, 1)>>}

NextExpire ==
    \/ \E m \in ExpireMoves : Alive /\ tcp_state_transition(m[1], m[2])
    \/ \E isn \in IsnVals :
          /\ Alive
          /\ IP_VS_CONN_F_FULLNAT \in cp.flags
          /\ FnatIn(OptSegment(1, 0, 0, 0, U32(0, 100), Zero32, <<>>, <<>>),
                    "ok", isn, 1500, TRUE, 0)
    \/ \E ack_seq \in AckVals, payload \in Payloads :
          /\ Alive
          /\ IP_VS_CONN_F_FULLNAT \in cp.flags
          /\ FnatOut(OptSegment(0, 1, 0, 0, U32(0, 900), ack_seq, <<>>, payload),
                     "ok", 1, 0)
    \/ \E ack_seq \in AckVals, payload \in Payloads :
          /\ Alive
          /\ IP_VS_CONN_F_MASQ \in cp.flags
          /\ SnatOut(OptSegment(0, 1, 0, 0, U32(0, 900), ack_seq, <<>>, payload),
                     "ok", 1)
    \/ \E seq \in {U32(0, 101), U32(0, 102)}, delta \in {Zero32, U32(0, 7)} :
          /\ Alive
          /\ ip_vs_synproxy_ack_rcv(
                 OptSegment(0, 1, 0, 0, seq, U32(0, 901), <<>>, <<>>), delta)
    \/ \E alloc_in \in BOOLEAN, alloc_out \in BOOLEAN :
          tcp_conn_expire_handler(alloc_in, alloc_out)

SpecExpire == InitExpire /\ [][NextExpire]_vars

-----------------------------------------------------------------------------
(* SpecState: one flow driven through the state machine                    *)

InitState ==
    /\ \E noout \in BOOLEAN, hasdest \in BOOLEAN :
           cp = NewConn(IP_VS_CONN_F_MASQ, AF_INET, noout, hasdest, FALSE)
    /\ dest = NewDest
    /\ tcp_state_table = "tcp_states"
    /\ sysctl = Sysctl(0, 0, 0, 0, 0, 0)
    /\ skb_in = NoSegment
    /\ skb = NoSegment
    /\ op = Op("init", 0)
    /\ xmit = <<>>
    /\ esmib = NewStats
    /\ tcp_apps = NoApps
    /\ appcnt = 0
    /\ tcp_app_lock = 0
    /\ cpu = [core \in Cores |-> Idle]

NextState ==
    \/ \E direction \in Directions, pkt \in FlagSegments \cup {ShortSegment} :
           tcp_state_transition(direction, pkt)
    \/ \E flags \in 0 .. 3 : tcp_timeout_change(flags)
    \/ ip_vs_tcp_conn_listen

SpecState == InitState /\ [][NextState]_vars

\* C1: under both tables every (direction, flag class, state) cell holds one
\* of the 11 states, and the flow's state, previous state included, is one of
\* the 11 states after any sequence of state transitions.
C1_StateTableTotal ==
    /\ \A name \in TableNames, direction \in Directions,
          idx \in 0 .. 3, state \in States :
           next_state(name, tcp_state_off(direction) + idx, state) \in States
    /\ cp.state \in States
    /\ cp.old_state \in States

\* C1 witness: a decoded segment has moved the flow out of NONE
C1_Witness ==
    /\ op.name = "state_transition"
    /\ op.ret = 1
    /\ cp.state = IP_VS_TCP_S_ESTABLISHED
    /\ cp.old_state # cp.state


\* the SACK walk of the last operation, if it matched a SACK option
SackWalks == {k \in 1 .. Len(op.walks) :
                 op.walks[k].who = "sack" /\ op.walks[k].opt # {}}

\* the offsets the MSS walk of the last operation stored to
MssWritten == UNION {op.walks[k].wr : k \in {j \in 1 .. Len(op.walks) :
                                               op.walks[j].who = "mss"}}

\* the first offset of an option
OptStart(opt) == CHOOSE i \in opt : \A j \in opt : i <= j

\* C2: after FNAT-out has rewritten a segment that carries a SACK option,
\* every 32-bit edge of every block of the option is the edge that came in
\* minus the flow's delta, and every byte outside the blocks (the MSS value
\* of a SYN-ACK aside) is the byte that came in.
C2_SackBothEdges ==
    (op.name = "fnat_out" /\ op.ret = 1) =>
        \A k \in SackWalks :
            LET opt == op.walks[k].opt
                first == OptStart(opt) + TCPOLEN_SACK_BASE
                edges == (Cardinality(opt) - TCPOLEN_SACK_BASE) \div 4
                blocks == Span(first, 4 * edges)
            IN  /\ \A e \in 0 .. edges - 1 :
                       ntohl(RdBytes(skb.data, first + 4 * e, 4, 0))
                         = Sub32(ntohl(RdBytes(skb_in.data, first + 4 * e, 4, 0)),
                                 cp.fnat_seq.delta)
                /\ \A j \in 0 .. Len(skb.data) - 1 :
                       j \notin blocks \cup MssWritten =>
                           skb.data[j + 1] = skb_in.data[j + 1]

\* tcph->syn & !tcph->ack
PureSyn(th) == th.syn = 1 /\ th.ack = 0

CipInserted(c) == IP_VS_CONN_F_CIP_INSERTED \in c.flags

\* the flow's state lets a configured reuse regenerate the sequence record
ReuseState(c) ==
    /\ sysctl.conn_reused_entry = 1
    /\ c.fnat_seq.init_seq # Zero32
    /\ c.state \in {IP_VS_TCP_S_SYN_RECV, IP_VS_TCP_S_SYN_SENT}

C4_DeltaFrozen ==
    [][(cp.fnat_seq.init_seq # Zero32 /\ ~ReuseState(cp)) =>
          cp'.fnat_seq.delta = cp.fnat_seq.delta]_vars

\* C4 witness: FNAT-in has handled a pure SYN whose sequence number is not the
\* one the delta was computed from, and the delta is as it was
C4_Witness ==
    /\ op.name = "fnat_in"
    /\ PureSyn(skb_in)
    /\ cp.fnat_seq.init_seq # Zero32
    /\ cp.fnat_seq.delta # Sub32(cp.fnat_seq.init_seq, ntohl(skb_in.seq))

\* C5 as the spec states it: after FNAT-in has handled a pure SYN with
\* sequence number s, fdata_seq = s + 1, delta = init_seq - s and CIP_INSERTED
\* is clear.
C5_SynRecord ==
    (op.name = "fnat_in" /\ op.ret = 1 /\ PureSyn(skb_in)) =>
        /\ cp.fnat_seq.fdata_seq = Add32(ntohl(skb_in.seq), One32)
        /\ cp.fnat_seq.delta = Sub32(cp.fnat_seq.init_seq, ntohl(skb_in.seq))
        /\ ~CipInserted(cp)

\* C5 amended: every pure SYN with sequence number s leaves fdata_seq = s + 1
\* and CIP_INSERTED clear; it leaves delta = init_seq - s when init_seq was 0
\* or the reuse applies, and leaves init_seq and delta alone otherwise.
C5_SynRecordAmended ==
    [][(op'.name = "fnat_in" /\ op'.ret = 1 /\ PureSyn(skb_in')) =>
          /\ cp'.fnat_seq.fdata_seq = Add32(ntohl(skb_in'.seq), One32)
          /\ ~CipInserted(cp')
          /\ IF cp.fnat_seq.init_seq = Zero32 \/ ReuseState(cp)
             THEN cp'.fnat_seq.delta
                     = Sub32(cp'.fnat_seq.init_seq, ntohl(skb_in'.seq))
             ELSE /\ cp'.fnat_seq.delta = cp.fnat_seq.delta
                  /\ cp'.fnat_seq.init_seq = cp.fnat_seq.init_seq]_vars

\* C5 witness: a pure SYN of a flow in SYN_RECV, reuse configured, has
\* regenerated the record while CIP_INSERTED is clear
C5_Witness ==
    /\ op.name = "fnat_in"
    /\ op.ret = 1
    /\ PureSyn(skb_in)
    /\ sysctl.conn_reused_entry = 1
    /\ cp.state = IP_VS_TCP_S_SYN_RECV
    /\ cp.fnat_seq.init_seq # Zero32
    /\ cp.fnat_seq.delta = Sub32(cp.fnat_seq.init_seq, ntohl(skb_in.seq))
    /\ esmib.FULLNAT_ADD_TOA_OK > 0

\* C6: a segment FNAT-in has let through leaves with seq = seq as it came +
\* delta, and a segment FNAT-out has let through leaves with ack_seq = ack_seq
\* as it came - delta, for the delta the flow holds after the handler.
C6_SeqLinear ==
    /\ (op.name = "fnat_in" /\ op.ret = 1) =>
           ntohl(skb.seq) = Add32(ntohl(skb_in.seq), cp.fnat_seq.delta)
    /\ (op.name = "fnat_out" /\ op.ret = 1) =>
           ntohl(skb.ack_seq) = Sub32(ntohl(skb_in.ack_seq), cp.fnat_seq.delta)

\* C6 witness: the client's SYN had seq 100, the backend acknowledges
\* init_seq + 1, and the segment leaves FNAT-out with ack_seq 101
C6_Witness ==
    /\ op.name = "fnat_out"
    /\ op.ret = 1
    /\ cp.fnat_seq.delta = U32(57005, 48879)
    /\ ntohl(skb_in.ack_seq) = Add32(cp.fnat_seq.init_seq, One32)
    /\ ntohl(skb.ack_seq) = U32(0, 101)

\* C7: every option walk of the last operation read and stored only inside
\* the option area it was given, and stored only inside the option it matched.
C7_WalkersStayInside ==
    \A k \in 1 .. Len(op.walks) :
        LET w == op.walks[k]
        IN  /\ \A i \in w.rd \cup w.wr : i < w.length
            /\ w.wr \subseteq w.opt

\* every packet handed to xmit is a bare RST: rst = 1, ack_seq = 0, doff = 5
BareRsts ==
    \A k \in 1 .. Len(xmit) :
        /\ xmit[k].th.rst = 1
        /\ xmit[k].th.ack_seq = BeZero
        /\ xmit[k].th.doff = 5

\* the expiry handler sends for this flow: the reset is configured, the flow
\* is NAT or FullNAT, and it is ESTABLISHED or SYN_SENT with a queued ACK
SendsRst ==
    /\ sysctl.conn_expire_tcp_rst # 0
    /\ cp.flags \cap {IP_VS_CONN_F_FULLNAT, IP_VS_CONN_F_MASQ} # {}
    /\ \/ cp.state = IP_VS_TCP_S_ESTABLISHED
       \/ cp.state = IP_VS_TCP_S_SYN_SENT /\ cp.ack_skb # <<>>

\* the packets handed to cp->packet_xmit, which go to the backend
ToBackend == {k \in 1 .. Len(xmit) : xmit[k].via = "packet_xmit"}

\* the packets handed to a response xmit function, which go to the client
ToClient == {k \in 1 .. Len(xmit) : xmit[k].via # "packet_xmit"}

\* C8 as the spec states it: after the expiry handler has run, zero or two
\* packets have been handed to xmit, never one, and each is a bare RST.
C8_ZeroOrTwo ==
    op.name = "conn_expire" => (Len(xmit) \in {0, 2} /\ BareRsts)

\* C8 amended: after the expiry handler has run every packet handed to xmit is
\* a bare RST; no packet when the handler does not send for the flow, else one
\* packet per buffer allocation that succeeded: two or none when both
\* allocations end alike, one when exactly one of them fails.
C8_OnePerBuffer ==
    op.name = "conn_expire" =>
        /\ BareRsts
        /\ Cardinality(ToBackend) = IF SendsRst /\ op.alloc[1] THEN 1 ELSE 0
        /\ Cardinality(ToClient) = IF SendsRst /\ op.alloc[2] THEN 1 ELSE 0
        /\ op.alloc[1] = op.alloc[2] => Len(xmit) \in {0, 2}

\* C8 witness: the flow expired in ESTABLISHED, one allocation failed, and
\* one RST was handed to xmit
C8_Witness ==
    /\ op.name = "conn_expire"
    /\ cp.state = IP_VS_TCP_S_ESTABLISHED
    /\ op.alloc = <<TRUE, FALSE>>
    /\ Len(xmit) = 1

\* C9: when a flow expires in ESTABLISHED, the RST to the backend carries
\* rs_ack_seq - delta for a FullNAT flow and rs_ack_seq for a NAT flow, the RST
\* to the client carries rs_end_seq, and with the reset configured and both
\* buffers allocated both are sent; a flow that is neither ESTABLISHED nor
\* SYN_SENT with a queued ACK sends none.
C9_RstSeq ==
    op.name = "conn_expire" =>
        /\ cp.state = IP_VS_TCP_S_ESTABLISHED =>
              /\ \A k \in ToBackend :
                    xmit[k].th.seq =
                       IF IP_VS_CONN_F_FULLNAT \in cp.flags
                       THEN htonl(Sub32(ntohl(cp.rs_ack_seq), cp.fnat_seq.delta))
                       ELSE cp.rs_ack_seq
              /\ \A k \in ToClient : xmit[k].th.seq = cp.rs_end_seq
              /\ (SendsRst /\ op.alloc = <<TRUE, TRUE>>) =>
                    (ToBackend = {1} /\ ToClient = {2})
        /\ ( /\ cp.state # IP_VS_TCP_S_ESTABLISHED
             /\ ~(cp.state = IP_VS_TCP_S_SYN_SENT /\ cp.ack_skb # <<>>) ) =>
              xmit = <<>>

\* C9 witness: a FullNAT flow with a non-zero delta and a stored rs_ack_seq
\* expired in ESTABLISHED and both RSTs were sent
C9_Witness ==
    /\ op.name = "conn_expire"
    /\ cp.state = IP_VS_TCP_S_ESTABLISHED
    /\ IP_VS_CONN_F_FULLNAT \in cp.flags
    /\ cp.fnat_seq.delta # Zero32
    /\ cp.rs_ack_seq # BeZero
    /\ Len(xmit) = 2

\* C10: while conn_expire_tcp_rst is set, no egress segment handled by SNAT-out
\* or FNAT-out moves a stored (non-zero) rs_ack_seq backward in serial-number
\* order; a segment whose ack_seq is before the stored non-zero rs_ack_seq
\* leaves rs_ack_seq and rs_end_seq as they are, and so does every RST.
C10_RevPathMonotone ==
    [][(sysctl.conn_expire_tcp_rst # 0 /\ op'.name \in {"snat", "fnat_out"}) =>
          LET kept == /\ cp'.rs_ack_seq = cp.rs_ack_seq
                      /\ cp'.rs_end_seq = cp.rs_end_seq
              set == cp.rs_ack_seq # BeZero
          IN  /\ set => ~before(ntohl(cp'.rs_ack_seq), ntohl(cp.rs_ack_seq))
              /\ (set /\ before(ntohl(skb_in'.ack_seq), ntohl(cp.rs_ack_seq)))
                    => kept
              /\ skb_in'.rst = 1 => kept]_vars

\* C10 witness: a handler has let a segment through whose ack_seq is before
\* the stored rs_ack_seq
C10_Witness ==
    /\ op.name \in {"snat", "fnat_out"}
    /\ op.ret = 1
    /\ skb_in.rst = 0
    /\ cp.rs_ack_seq # BeZero
    /\ before(ntohl(skb_in.ack_seq), ntohl(cp.rs_ack_seq))

-----------------------------------------------------------------------------
(* The state machine's claims, over SpecState                              *)

\* the step is a tcp_state_transition call that decoded a TCP header
Decoded == op'.name = "state_transition" /\ op'.ret = 1

\* the table rows the call of the step consulted: INPUT_ONLY while NOOUTPUT
\* is set and the direction is not OUTPUT, the direction's rows otherwise
RowsUsed ==
    IF IP_VS_CONN_F_NOOUTPUT \in cp.flags
       /\ tcp_state_off(op'.dir) # TCP_DIR_OUTPUT
    THEN TCP_DIR_INPUT_ONLY
    ELSE tcp_state_off(op'.dir)

\* the step moved the flow to the cell of flag class idx in the rows consulted
LookedUp(idx) ==
    cp'.state = next_state(tcp_state_table, RowsUsed + idx, cp.state)

\* C11: the flag class of the lookup is chosen with priority RST > SYN > FIN >
\* ACK: a decoded segment with RST set is looked up in the rst row whatever
\* else it carries, otherwise in the syn row if SYN is set, otherwise in the
\* fin row if FIN is set, otherwise in the ack row if ACK is set.
C11_RstFirst ==
    [][Decoded =>
          LET th == skb_in'
          IN  IF th.rst = 1 THEN LookedUp(3)
              ELSE IF th.syn = 1 THEN LookedUp(0)
              ELSE IF th.fin = 1 THEN LookedUp(1)
              ELSE IF th.ack = 1 THEN LookedUp(2)
              ELSE TRUE]_vars

\* C11 witness: an ingress SYN+ACK+RST segment on an ESTABLISHED flow was
\* classed RST and closed the flow
C11_Witness ==
    /\ op.name = "state_transition"
    /\ op.ret = 1
    /\ op.dir = IP_VS_DIR_INPUT
    /\ skb_in.rst = 1
    /\ skb_in.syn = 1
    /\ skb_in.ack = 1
    /\ cp.old_state = IP_VS_TCP_S_ESTABLISHED
    /\ cp.state = IP_VS_TCP_S_CLOSE

\* C12 (as stated): the flag class is chosen among SYN, FIN, ACK, RST in that
\* priority order, SYN first and RST last: a segment carrying SYN and RST is
\* looked up in the syn row, one carrying ACK and RST in the ack row.
C12_SynFirst ==
    [][Decoded =>
          LET th == skb_in'
          IN  IF th.syn = 1 THEN LookedUp(0)
              ELSE IF th.fin = 1 THEN LookedUp(1)
              ELSE IF th.ack = 1 THEN LookedUp(2)
              ELSE IF th.rst = 1 THEN LookedUp(3)
              ELSE TRUE]_vars

\* C12 (amended): SYN, FIN, ACK, RST are the rows 0, 1, 2, 3 of each
\* direction's block, and SYN, FIN, ACK are tested in that order only when
\* RST is clear: a segment carrying SYN and RST, or ACK and RST, is looked up
\* in the rst row.
C12_RowOrder ==
    [][Decoded =>
          LET th == skb_in'
          IN  /\ (th.syn = 1 /\ th.rst = 1) => LookedUp(3)
              /\ (th.ack = 1 /\ th.rst = 1) => LookedUp(3)
              /\ (th.rst = 0 /\ th.syn = 1) => LookedUp(0)
              /\ (th.rst = 0 /\ th.syn = 0 /\ th.fin = 1) => LookedUp(1)
              /\ (th.rst = 0 /\ th.syn = 0 /\ th.fin = 0 /\ th.ack = 1)
                    => LookedUp(2)]_vars

\* C12 witness: an ingress SYN+RST segment on a NONE flow was looked up in the
\* rst row (CLOSE), not in the syn row (SYN_RECV)
C12_Witness ==
    /\ op.name = "state_transition"
    /\ op.ret = 1
    /\ op.dir = IP_VS_DIR_INPUT
    /\ skb_in.syn = 1
    /\ skb_in.rst = 1
    /\ cp.old_state = IP_VS_TCP_S_NONE
    /\ cp.state = IP_VS_TCP_S_CLOSE
    /\ cp.state # next_state(tcp_state_table, TCP_DIR_INPUT + 0, cp.old_state)

\* the flow cp put in a given state with NOOUTPUT set or clear
FlowIn(state, noout) ==
    [cp EXCEPT !.state = state,
               !.flags = IF noout THEN @ \cup {IP_VS_CONN_F_NOOUTPUT}
                         ELSE @ \ {IP_VS_CONN_F_NOOUTPUT}]

\* C13: a segment with none of SYN, FIN, ACK, RST set moves the flow to CLOSE
\* from every state, in every direction, under either table, and installs the
\* CLOSE timeout.
C13_NoFlagCloses ==
    /\ \A name \in TableNames, direction \in Directions, state \in States,
          noout \in BOOLEAN :
           LET r == set_tcp_state(FlowIn(state, noout), dest, name, direction,
                                  FlagSegment(0, 0, 0, 0))
           IN  /\ r.cp.state = IP_VS_TCP_S_CLOSE
               /\ r.cp.timeout = timeout_table(IP_VS_TCP_S_CLOSE)
    /\ (/\ op.name = "state_transition"
        /\ op.ret = 1
        /\ skb_in.syn = 0 /\ skb_in.fin = 0 /\ skb_in.ack = 0 /\ skb_in.rst = 0)
       => /\ cp.state = IP_VS_TCP_S_CLOSE
          /\ cp.timeout = sysctl_ip_vs_tcp_timeouts[IP_VS_TCP_S_CLOSE + 1]

\* C13 witness: a flagless egress segment under the secure table has closed a
\* flow that was in SYNACK
C13_Witness ==
    /\ op.name = "state_transition"
    /\ op.ret = 1
    /\ op.dir = IP_VS_DIR_OUTPUT
    /\ tcp_state_table = "tcp_states_dos"
    /\ skb_in.syn = 0 /\ skb_in.fin = 0 /\ skb_in.ack = 0 /\ skb_in.rst = 0
    /\ cp.old_state = IP_VS_TCP_S_SYNACK
    /\ cp.state = IP_VS_TCP_S_CLOSE

\* C14: after every state_transition call that decodes a header and after
\* every conn_listen call the flow's timeout is the timeout vector's entry for
\* the flow's state (an ingress SYN on a NONE flow under the normal table
\* gives SYN_RECV and entry 3); a call whose header cannot be read changes
\* neither the state nor the timeout.
C14_TimeoutOfState ==
    [][/\ (Decoded \/ op'.name = "conn_listen")
            => cp'.timeout = sysctl_ip_vs_tcp_timeouts[cp'.state + 1]
       /\ (/\ Decoded
           /\ tcp_state_table = "tcp_states"
           /\ op'.dir = IP_VS_DIR_INPUT
           /\ cp.state = IP_VS_TCP_S_NONE
           /\ skb_in'.syn = 1 /\ skb_in'.rst = 0)
            => /\ cp'.state = IP_VS_TCP_S_SYN_RECV
               /\ cp'.timeout = sysctl_ip_vs_tcp_timeouts[3 + 1]
       /\ (op'.name = "state_transition" /\ op'.ret = 0)
            => /\ skb_in'.short = 1
               /\ cp'.state = cp.state
               /\ cp'.timeout = cp.timeout]_vars

\* C14 witness: an ingress SYN under the normal table has moved a NONE flow
\* to SYN_RECV with the timeout of entry 3
C14_Witness ==
    /\ op.name = "state_transition"
    /\ op.ret = 1
    /\ op.dir = IP_VS_DIR_INPUT
    /\ tcp_state_table = "tcp_states"
    /\ skb_in.syn = 1 /\ skb_in.rst = 0
    /\ cp.old_state = IP_VS_TCP_S_NONE
    /\ cp.state = IP_VS_TCP_S_SYN_RECV
    /\ cp.timeout = 30

\* C15: after every state_transition call that decodes a header, old_state
\* holds the state the flow had before the call and state holds the table's
\* next state; when the packet does not change the state, old_state = state.
C15_SnapshotThenCommit ==
    [][Decoded =>
          /\ cp'.old_state = cp.state
          /\ IF tcp_state_idx(skb_in') < 0
             THEN cp'.state = IP_VS_TCP_S_CLOSE
             ELSE LookedUp(tcp_state_idx(skb_in'))
          /\ cp'.state = cp.state => cp'.old_state = cp'.state]_vars

\* C15 witness: an egress FIN has moved an ESTABLISHED flow to FIN_WAIT and
\* old_state still says ESTABLISHED
C15_Witness ==
    /\ op.name = "state_transition"
    /\ op.ret = 1
    /\ op.dir = IP_VS_DIR_OUTPUT
    /\ skb_in.fin = 1
    /\ cp.old_state = IP_VS_TCP_S_ESTABLISHED
    /\ cp.state = IP_VS_TCP_S_FIN_WAIT

\* C16: for a flow with a backend attached that starts in NONE with INACTIVE
\* set, after any sequence of state_transition and conn_listen calls INACTIVE
\* is clear if and only if the state is ESTABLISHED, activeconns counts the
\* flow exactly when it is ESTABLISHED, and activeconns + inactconns stays 1.
C16_ActiveIffEstablished ==
    cp.dest =>
       /\ (IP_VS_CONN_F_INACTIVE \notin cp.flags)
             <=> (cp.state = IP_VS_TCP_S_ESTABLISHED)
       /\ dest.activeconns =
             (IF cp.state = IP_VS_TCP_S_ESTABLISHED THEN 1 ELSE 0)
       /\ dest.activeconns + dest.inactconns = 1

\* C17: while NOOUTPUT is set every INPUT-direction segment is looked up in
\* the INPUT_ONLY rows and leaves NOOUTPUT set; the first OUTPUT-direction
\* segment clears NOOUTPUT and is itself looked up in the OUTPUT rows; once
\* clear, NOOUTPUT is never set again and INPUT segments use the INPUT rows.
C17_NoOutputRemap ==
    [][/\ IP_VS_CONN_F_NOOUTPUT \notin cp.flags
            => IP_VS_CONN_F_NOOUTPUT \notin cp'.flags
       /\ Decoded =>
            LET noout == IP_VS_CONN_F_NOOUTPUT \in cp.flags
                idx == tcp_state_idx(skb_in')
                Row(off) ==
                    idx >= 0 =>
                       cp'.state = next_state(tcp_state_table, off + idx, cp.state)
            IN  /\ (noout /\ op'.dir = IP_VS_DIR_INPUT)
                      => /\ Row(TCP_DIR_INPUT_ONLY)
                         /\ IP_VS_CONN_F_NOOUTPUT \in cp'.flags
                /\ (noout /\ op'.dir = IP_VS_DIR_OUTPUT)
                      => /\ Row(TCP_DIR_OUTPUT)
                         /\ IP_VS_CONN_F_NOOUTPUT \notin cp'.flags
                /\ (~noout /\ op'.dir = IP_VS_DIR_INPUT)
                      => Row(TCP_DIR_INPUT)]_vars

\* C17 witness: under the secure table an INPUT-direction SYN on a NONE flow
\* with NOOUTPUT set has gone to SYNACK, the INPUT_ONLY cell (the INPUT cell
\* is SYN_RECV), and NOOUTPUT is still set
C17_Witness ==
    /\ op.name = "state_transition"
    /\ op.ret = 1
    /\ op.dir = IP_VS_DIR_INPUT
    /\ tcp_state_table = "tcp_states_dos"
    /\ IP_VS_CONN_F_NOOUTPUT \in cp.flags
    /\ skb_in.syn = 1 /\ skb_in.rst = 0
    /\ cp.old_state = IP_VS_TCP_S_NONE
    /\ cp.state = IP_VS_TCP_S_SYNACK

\* C18: with the secure table selected, an ingress SYN (RST clear) on a flow
\* in SYNACK leaves the flow in SYNACK, with NOOUTPUT clear (INPUT rows) and
\* with NOOUTPUT set (INPUT_ONLY rows).
C18_SynAckSticky ==
    [][(/\ Decoded
        /\ tcp_state_table = "tcp_states_dos"
        /\ op'.dir = IP_VS_DIR_INPUT
        /\ cp.state = IP_VS_TCP_S_SYNACK
        /\ skb_in'.syn = 1 /\ skb_in'.rst = 0)
          => cp'.state = IP_VS_TCP_S_SYNACK]_vars

\* C18 witness: timeout_change(1) was called, an egress SYN took the flow
\* from SYN_RECV to SYNACK (so NOOUTPUT is clear), and an ingress SYN has
\* left it in SYNACK
C18_Witness ==
    /\ op.name = "state_transition"
    /\ op.ret = 1
    /\ op.dir = IP_VS_DIR_INPUT
    /\ tcp_state_table = "tcp_states_dos"
    /\ IP_VS_CONN_F_NOOUTPUT \notin cp.flags
    /\ skb_in.syn = 1 /\ skb_in.rst = 0
    /\ cp.old_state = IP_VS_TCP_S_SYNACK
    /\ cp.state = IP_VS_TCP_S_SYNACK

\* C19: starting from a fresh flow in NONE, no state_transition call, in any
\* direction, with any flags, under either table, puts the flow in LISTEN;
\* the flow enters LISTEN only through conn_listen.
C19_ListenOnlyByListen ==
    [][(cp'.state = IP_VS_TCP_S_LISTEN /\ cp.state # IP_VS_TCP_S_LISTEN)
          => op'.name = "conn_listen"]_vars

\* C19 witness: conn_listen has put a flow in LISTEN that segments had taken
\* to ESTABLISHED before
C19_Witness ==
    /\ op.name = "conn_listen"
    /\ cp.state = IP_VS_TCP_S_LISTEN
    /\ cp.old_state = IP_VS_TCP_S_NONE
    /\ IP_VS_CONN_F_INACTIVE \notin cp.flags

-----------------------------------------------------------------------------
(* The client-address option's layout, over SpecToa                        *)

\* C20: whenever the client-address option is inserted, the output's data
\* offset is the input's plus 2 (the header grows by 8 bytes and still fits
\* the 4-bit doff field), the IP total length grows by 8, the first 8 option
\* bytes are {opcode, 8, client port, client IPv4 address} and the previous
\* options and payload follow unchanged, for every input doff from 5 to 15.
C20_ToaLayout ==
    (op.name = "fnat_in" /\ op.toa) =>
       /\ skb.doff = skb_in.doff + 2
       /\ skb.doff * 4 <= 60
       /\ skb.tot_len = skb_in.tot_len + 8
       /\ SubSeq(skb.data, 1, 8) =
             <<TCPOPT_ADDR, TCPOLEN_ADDR>> \o cp.cport \o cp.caddr
       /\ SubSeq(skb.data, 9, Len(skb.data)) = skb_in.data

-----------------------------------------------------------------------------
(* The ACK queue on expiry, over SpecExpire                                *)

\* C21: when conn_expire_handler peeks at the queued ACK of a SYN_SENT flow it
\* puts the packet back at the head: after the handler the flow's ACK queue
\* holds the same packets in the same order as before, for every queue
\* length, whichever of the two RSTs were built.
C21_PeekPutsBack ==
    [][op'.name = "conn_expire" => cp'.ack_skb = cp.ack_skb]_vars

\* C21 witness: a SYN_SENT flow with two different ACKs queued has expired,
\* both RSTs were built from the head of the queue
C21_Witness ==
    /\ op.name = "conn_expire"
    /\ op.alloc = <<TRUE, TRUE>>
    /\ cp.state = IP_VS_TCP_S_SYN_SENT
    /\ Len(cp.ack_skb) = 2
    /\ cp.ack_skb[1] # cp.ack_skb[2]
    /\ Len(xmit) = 2
    /\ xmit[1].th.seq = cp.ack_skb[1].seq


-----------------------------------------------------------------------------
(* SpecSchedule: packets that match no flow are offered for scheduling     *)

InitSchedule ==
    /\ cp = NewConn(IP_VS_CONN_F_MASQ, AF_INET, FALSE, TRUE, FALSE)
    /\ dest = NewDest
    /\ tcp_state_table = "tcp_states"
    /\ \E drop \in Bit : sysctl = Sysctl(drop, 0, 0, 0, 0, 0)
    /\ skb_in = NoSegment
    /\ skb = NoSegment
    /\ op = Op("init", 0)
    /\ xmit = <<>>
    /\ esmib = NewStats
    /\ tcp_apps = NoApps
    /\ appcnt = 0
    /\ tcp_app_lock = 0
    /\ cpu = [core \in Cores |-> Idle]

NextSchedule ==
    \E pkt \in FlagSegments \cup {ShortSegment}, claimed \in BOOLEAN,
       svc \in BOOLEAN, todrop \in BOOLEAN, sched \in BOOLEAN,
       leave \in {"NF_ACCEPT", "NF_DROP"}, vip \in BOOLEAN :
          tcp_conn_schedule(pkt, claimed, svc, todrop, sched, leave, vip)

SpecSchedule == InitSchedule /\ [][NextSchedule]_vars

\* C22: for a packet that the SYN-proxy ACK hook does not claim,
\* conn_schedule makes a flow only for a pure SYN (SYN set; ACK, FIN, RST
\* clear) whose service matches while admission control reports no overload;
\* such a SYN under overload is dropped without a call of the scheduler; a
\* segment that is not a pure SYN never reaches the scheduler.
C22_OnlyPureSynSchedules ==
    LET pure == skb_in.syn = 1 /\ skb_in.ack = 0 /\ skb_in.fin = 0 /\ skb_in.rst = 0
        scheduled == \E i \in 1 .. Len(op.calls) : op.calls[i][1] = "ip_vs_schedule"
    IN  (op.name = "conn_schedule" /\ skb_in.short = 0 /\ ~op.env.claimed) =>
           /\ op.cpp => (pure /\ op.env.svc /\ ~op.env.todrop)
           /\ (pure /\ op.env.svc /\ op.env.todrop) =>
                 (op.verdict = "NF_DROP" /\ op.ret = 0 /\ ~scheduled)
           /\ ~pure => ~scheduled

\* C22 witness: a pure SYN with a matching service and no overload was
\* scheduled into a flow
C22_Witness ==
    /\ op.name = "conn_schedule"
    /\ ~op.env.claimed
    /\ op.cpp
    /\ op.ret = 1
    /\ skb_in.syn = 1

\* C23 as stated: with no matching service, a packet to a registered virtual
\* address under tcp_drop_entry is dropped with 0 returned, and every other
\* packet gets 1 returned, no flow and no drop verdict
C23_StrayVip ==
    (op.name = "conn_schedule" /\ ~op.env.svc) =>
        IF sysctl.tcp_drop_entry # 0 /\ op.env.vip
        THEN op.verdict = "NF_DROP" /\ op.ret = 0
        ELSE op.ret = 1 /\ ~op.cpp /\ op.verdict # "NF_DROP"

\* C23, amended: the above for the packets whose TCP header is readable and
\* which the SYN-proxy ACK hook does not claim
C23_StrayVipDecoded ==
    (/\ op.name = "conn_schedule"
     /\ ~op.env.svc
     /\ skb_in.short = 0
     /\ ~op.env.claimed) =>
        IF sysctl.tcp_drop_entry # 0 /\ op.env.vip
        THEN op.verdict = "NF_DROP" /\ op.ret = 0
        ELSE op.ret = 1 /\ ~op.cpp /\ op.verdict # "NF_DROP"

\* C23 witness: the shield dropped a packet that is no SYN and counted it
C23_Witness ==
    /\ op.name = "conn_schedule"
    /\ ~op.env.svc
    /\ op.env.vip
    /\ ~op.env.claimed
    /\ skb_in.short = 0
    /\ skb_in.syn = 0
    /\ sysctl.tcp_drop_entry # 0
    /\ op.verdict = "NF_DROP"
    /\ esmib.DEFENCE_TCP_DROP = 1


-----------------------------------------------------------------------------
(* SpecApp: two cores register and unregister helpers and bind the flow    *)

\* two helpers on the flow's virtual port, one on another port of the same
\* list, one on a port of another list
Helpers ==
    {Inc("a", VPort, <<>>), Inc("b", VPort, <<-1>>), Inc("c", htons(21), <<0>>),
     Inc("d", DPort, <<>>)}

InitApp ==
    /\ \E fwd \in FwdMethods : cp = NewConn(fwd, AF_INET, FALSE, TRUE, FALSE)
    /\ dest = NewDest
    /\ tcp_state_table = "tcp_states"
    /\ sysctl = Sysctl(0, 0, 0, 0, 0, 0)
    /\ skb_in = NoSegment
    /\ skb = NoSegment
    /\ op = Op("init", 0)
    /\ xmit = <<>>
    /\ esmib = NewStats
    /\ tcp_apps = NoApps
    /\ appcnt = 0
    /\ tcp_app_lock = 0
    /\ cpu = [core \in Cores |-> Idle]

NextApp ==
    \/ \E core \in Cores, inc \in Helpers : tcp_register_app(core, inc)
    \/ \E core \in Cores, inc \in Helpers : tcp_unregister_app(core, inc)
    \/ \E core \in Cores, got \in BOOLEAN : tcp_app_conn_bind(core, got)

SpecApp == InitApp /\ [][NextApp]_vars

C25_BindOnlyNat ==
    /\ [](/\ IP_VS_CONN_F_MASQ \notin cp.flags =>
                /\ ~cp.app
                /\ op.name = "app_conn_bind" => op.ret = 0
          /\ \A core \in Cores :
                tcp_app_lock = core =>
                   cpu[core].pc \notin {"idle", "app_conn_bind:bound"})
    /\ [][/\ cp'.app # cp.app =>
                \E core \in Cores : cpu[core].pc = "app_conn_bind:bound"
                                    /\ cpu'[core] = Idle
          /\ \A core \in Cores :
               LET me == cpu[core]
                   match == \E x \in Registered : x.port = cp.vport
               IN  /\ (me.pc = "app_conn_bind:locked" /\ cpu'[core] # me) =>
                         /\ tcp_app_lock' = 0
                         /\ cp' = cp
                         /\ IF cpu'[core].pc = "app_conn_bind:bound"
                            THEN /\ match
                                 /\ cpu'[core].arg[1] \in Registered
                                 /\ cpu'[core].arg[1].port = cp.vport
                            ELSE /\ cpu'[core] = Idle
                                 /\ op'.name = "app_conn_bind"
                                 /\ op'.ret = 0
                         /\ ~match => cpu'[core] = Idle
                   /\ (me.pc = "app_conn_bind:bound" /\ cpu'[core] # me) =>
                         /\ cp'.app
                         /\ op'.name = "app_conn_bind"
                         /\ op'.env = me.arg[1]
                         /\ op'.ret = IF me.arg[1].init_conn = <<>> THEN 0
                                      ELSE me.arg[1].init_conn[1]
                         /\ tcp_app_lock' # core]_vars

\* C25 witness: the flow was bound to the helper on its port that has an
\* init_conn callback, and the callback's result was returned
C25_Witness ==
    /\ op.name = "app_conn_bind"
    /\ cp.app
    /\ IP_VS_CONN_F_MASQ \in cp.flags
    /\ op.env.port = cp.vport
    /\ op.env.init_conn = <<-1>>
    /\ op.ret = -1


-----------------------------------------------------------------------------
(* SpecCsum: segments with valid checksums go through the four handlers    *)

InitCsum ==
    /\ \E fwd \in {IP_VS_CONN_F_MASQ, IP_VS_CONN_F_FULLNAT}, hasapp \in BOOLEAN :
          cp = NewConn(fwd, AF_INET, FALSE, TRUE, hasapp)
    /\ dest = NewDest
    /\ tcp_state_table = "tcp_states"
    /\ sysctl = Sysctl(0, 1, 1, 1, 0, 0)
    /\ skb_in = NoSegment
    /\ skb = NoSegment
    /\ op = Op("init", 0)
    /\ xmit = <<>>
    /\ esmib = NewStats
    /\ tcp_apps = NoApps
    /\ appcnt = 0
    /\ tcp_app_lock = 0
    /\ cpu = [core \in Cores |-> Idle]

\* the markers a buffer may carry
ChecksumModes ==
    {"CHECKSUM_NONE", "CHECKSUM_UNNECESSARY", "CHECKSUM_COMPLETE",
     "CHECKSUM_PARTIAL"}

\* SYNs with MSS and timestamp options, a SYN-ACK with an MSS option, and
\* ACKs with no payload and with payloads of even and odd length
CsumSegments ==
    {OptSegment(1, 0, 0, 0, U32(0, 100), Zero32,
                <<TCPOPT_MSS, TCPOLEN_MSS, 5, 180>>, <<>>),
     OptSegment(1, 0, 0, 0, U32(255, 65535), Zero32,
                <<TCPOPT_MSS, TCPOLEN_MSS, 5, 180, TCPOPT_NOP, TCPOPT_NOP,
                  TCPOPT_TIMESTAMP, TCPOLEN_TIMESTAMP, 0, 0, 0, 7, 0, 0, 0, 9>>,
                <<>>),
     OptSegment(1, 1, 0, 0, U32(0, 900), U32(0, 101),
                <<TCPOPT_MSS, TCPOLEN_MSS, 5, 180>>, <<>>),
     OptSegment(0, 1, 0, 0, U32(0, 101), U32(0, 901), <<>>, <<>>),
     OptSegment(0, 1, 0, 0, U32(65535, 65535), U32(57005, 48980), <<>>,
                <<255, 255, 255, 255>>),
     OptSegment(0, 1, 1, 0, U32(0, 101), U32(0, 901), <<>>, <<72, 105, 33>>)}

\* FNAT-out writes the full checksum and leaves the marker, so it is given
\* the markers under which that field goes on the wire as it is
NextCsum ==
    \/ \E th \in CsumSegments, ip_summed \in ChecksumModes, grow \in BOOLEAN :
          SnatOutCsum(th, ip_summed, grow)
    \/ \E th \in CsumSegments, ip_summed \in ChecksumModes, grow \in BOOLEAN :
          DnatInCsum(th, ip_summed, grow)
    \/ \E th \in CsumSegments, ip_summed \in ChecksumModes, isn \in IsnVals :
          FnatInCsum(th, ip_summed, isn)
    \/ \E th \in CsumSegments, ip_summed \in ChecksumModes \ {"CHECKSUM_PARTIAL"} :
          FnatOutCsum(th, ip_summed)

SpecCsum == InitCsum /\ [][NextCsum]_vars

\* C26: a segment whose TCP checksum verifies under the addresses and ports
\* it arrived with leaves each of the four handlers, in every checksum mode
\* the handler has a branch for, with a checksum that verifies under the
\* addresses and ports it leaves with.  Under CHECKSUM_PARTIAL the field
\* verifies when it is the sum of the pseudo-header, else when the sum of
\* pseudo-header and segment folds to zero.
C26_ChecksumRoundTrip ==
    LET Verifies(th, saddr, daddr) ==
            IF th.ip_summed = "CHECKSUM_PARTIAL"
            THEN th.check = 65535 - csum_tcpudp_magic(saddr, daddr,
                                                      20 + Len(th.data), 0)
            ELSE csum_tcpudp_magic(saddr, daddr, 20 + Len(th.data),
                                   csum_partial(TcpBytes(th), 0)) = 0
        In(a, b) == Verifies(skb_in, a, b)
        Out(a, b) == Verifies(skb, a, b)
    IN  /\ (op.name = "snat" /\ op.ret = 1 /\ In(cp.daddr, cp.caddr)) =>
               (Out(cp.vaddr, cp.caddr) /\ skb.source = cp.vport)
        /\ (op.name = "dnat" /\ op.ret = 1 /\ In(cp.caddr, cp.vaddr)) =>
               (Out(cp.caddr, cp.daddr) /\ skb.dest = cp.dport)
        /\ (op.name = "fnat_in" /\ op.ret = 1 /\ In(cp.caddr, cp.vaddr)) =>
               (Out(cp.laddr, cp.daddr) /\ skb.source = cp.lport
                /\ skb.dest = cp.dport)
        /\ (op.name = "fnat_out" /\ op.ret = 1 /\ In(cp.daddr, cp.laddr)) =>
               (Out(cp.vaddr, cp.caddr) /\ skb.source = cp.vport
                /\ skb.dest = cp.cport)

\* C26 witness: the fast update has run on a segment with an odd payload,
\* and the field it left is not the one that came
C26_Witness ==
    /\ op.name = "snat"
    /\ op.ret = 1
    /\ ~cp.app
    /\ skb_in.ip_summed = "CHECKSUM_COMPLETE"
    /\ skb.ip_summed = "CHECKSUM_NONE"
    /\ Len(skb.data) = 3
    /\ skb.check # skb_in.check
    /\ skb_in.check # 0


-----------------------------------------------------------------------------
(* SpecHandlers: segments with every combination of flags go through the   *)
(* four handlers of flows with and without a helper, and the checks before *)
(* the rewrite end in every way                                            *)

InitHandlers ==
    /\ \E fwd \in {IP_VS_CONN_F_MASQ, IP_VS_CONN_F_FULLNAT}, hasapp \in BOOLEAN :
          cp = NewConn(fwd, AF_INET, FALSE, TRUE, hasapp)
    /\ dest = NewDest
    /\ tcp_state_table = "tcp_states"
    /\ sysctl = Sysctl(0, 1, 1, 1, 1, 1)
    /\ skb_in = NoSegment
    /\ skb = NoSegment
    /\ op = Op("init", 0)
    /\ xmit = <<>>
    /\ esmib = NewStats
    /\ tcp_apps = NoApps
    /\ appcnt = 0
    /\ tcp_app_lock = 0
    /\ cpu = [core \in Cores |-> Idle]

NextHandlers ==
    \/ \E syn \in Bit, ack \in Bit, fin \in Bit, rst \in Bit, pre \in PreOutcomes,
          isn \in IsnVals :
          /\ IP_VS_CONN_F_FULLNAT \in cp.flags
          /\ FnatIn(OptSegment(syn, ack, fin, rst, U32(0, 100), Zero32,
                               <<TCPOPT_NOP, TCPOPT_NOP, TCPOPT_TIMESTAMP,
                                 TCPOLEN_TIMESTAMP, 0, 0, 0, 7, 0, 0, 0, 9>>, <<>>),
                    pre, isn, 1500, TRUE, 0)
    \/ \E syn \in Bit, rst \in Bit, pre \in PreOutcomes :
          /\ IP_VS_CONN_F_FULLNAT \in cp.flags
          /\ FnatOut(OptSegment(syn, 1, 0, rst, U32(0, 900), U32(0, 101),
                                <<TCPOPT_MSS, TCPOLEN_MSS, 5, 180>>, <<>>),
                     pre, 1, 0)
    \/ \E syn \in Bit, rst \in Bit, pre \in PreOutcomes :
          /\ IP_VS_CONN_F_MASQ \in cp.flags
          /\ SnatOut(OptSegment(syn, 1, 0, rst, U32(0, 900), U32(0, 101),
                                <<>>, <<72, 105>>),
                     pre, 1)
    \/ \E syn \in Bit, ack \in Bit, pre \in PreOutcomes :
          /\ IP_VS_CONN_F_MASQ \in cp.flags
          /\ DnatIn([OptSegment(syn, ack, 0, 0, U32(0, 100), Zero32, <<>>, <<>>)
                        EXCEPT !.dest = cp.vport],
                    pre)

SpecHandlers == InitHandlers /\ [][NextHandlers]_vars

\* C27: in FNAT-in the timestamp erase and the initialisation of the
\* sequence record run only for a pure SYN (SYN set; ACK, FIN and RST
\* clear): any other segment, a SYN with FIN or RST among them, leaves
\* fnat_seq as it was, does not clear CIP_INSERTED and has no timestamp walk
C27_OnlyPureSynInits ==
    [][(/\ op'.name = "fnat_in"
        /\ ~(/\ skb_in'.syn = 1
             /\ skb_in'.ack = 0
             /\ skb_in'.fin = 0
             /\ skb_in'.rst = 0)) =>
          /\ cp'.fnat_seq = cp.fnat_seq
          /\ IP_VS_CONN_F_CIP_INSERTED \in cp.flags =>
                IP_VS_CONN_F_CIP_INSERTED \in cp'.flags
          /\ \A k \in 1 .. Len(op'.walks) : op'.walks[k].who # "timestamp"]_vars

\* C28: when a helper is bound and the checksum check fails or the helper's
\* callback rejects the packet, each of the four handlers returns 0 and
\* leaves the segment and the flow as they were
C28_BailBeforeRewrite ==
    [][(/\ op'.name \in {"snat", "dnat", "fnat_in", "fnat_out"}
        /\ cp.app
        /\ op'.env \in {"csum", "app"}) =>
          /\ op'.ret = 0
          /\ skb' = skb_in'
          /\ cp' = cp]_vars

\* C28 witness: SNAT-out of a flow with a helper gave up on a failed
\* checksum, on a segment that it would have recorded, after the flow's
\* reverse-path record had been written by an earlier segment
C28_Witness ==
    /\ op.name = "snat"
    /\ op.env = "csum"
    /\ op.ret = 0
    /\ cp.app
    /\ skb_in.rst = 0
    /\ skb_in.syn = 1
    /\ cp.rs_ack_seq # BeZero
    /\ cp.rs_end_seq = htonl(U32(0, 902))

-----------------------------------------------------------------------------
(* SpecCores: one FullNAT flow whose packets are handled on two cores,     *)
(* reuse and the reverse-path record switched on                          *)

\* ingress segments of the flow: SYN, ACK, FIN+ACK, RST
CoreInSegs ==
    {OptSegment(1, 0, 0, 0, U32(0, 100), Zero32, <<>>, <<>>),
     OptSegment(0, 1, 0, 0, U32(0, 101), U32(0, 901), <<>>, <<>>),
     OptSegment(0, 1, 1, 0, U32(0, 101), U32(0, 901), <<>>, <<>>),
     OptSegment(0, 0, 0, 1, U32(0, 101), Zero32, <<>>, <<>>)}

\* egress segments of the flow: SYN-ACK, two data segments, RST
CoreOutSegs ==
    {OptSegment(1, 1, 0, 0, U32(0, 900), U32(0, 101), <<>>, <<>>),
     OptSegment(0, 1, 0, 0, U32(0, 901), U32(0, 103), <<>>, <<72, 105>>),
     OptSegment(0, 1, 0, 0, U32(0, 903), U32(0, 105), <<>>, <<33>>),
     OptSegment(0, 0, 0, 1, U32(0, 904), Zero32, <<>>, <<>>)}

InitCores ==
    /\ cp = NewConn(IP_VS_CONN_F_FULLNAT, AF_INET, FALSE, TRUE, FALSE)
    /\ dest = NewDest
    /\ tcp_state_table = "tcp_states"
    /\ sysctl = Sysctl(0, 0, 0, 0, 1, 1)
    /\ skb_in = NoSegment
    /\ skb = NoSegment
    /\ op = Op("init", 0)
    /\ xmit = <<>>
    /\ esmib = NewStats
    /\ tcp_apps = NoApps
    /\ appcnt = 0
    /\ tcp_app_lock = 0
    /\ cpu = [core \in Cores |-> Idle]

NextCores ==
    \/ \E core \in Cores, pkt \in CoreInSegs :
          CoreFnatIn(core, pkt, U32(0, 5000))
    \/ \E core \in Cores, pkt \in CoreOutSegs : CoreFnatOut(core, pkt)

SpecCores == InitCores /\ [][NextCores]_vars

\* C29: when a SYN reuses the flow, the reuse accounting of FNAT-in counts
\* the reuse under the state the flow had before that SYN's own transition,
\* whatever other cores did to the flow between the transition and the
\* handler.
C29_ReuseSeesPreTransition ==
    (op.name = "fnat_in:core" /\ op.calls # <<>>)
        => op.calls[2] = ReusedFrom(op.env[1])

\* the stored reverse-path pair is the pair of one egress segment
OnePair(c) ==
    \E pkt \in CoreOutSegs :
        /\ pkt.rst = 0
        /\ c.rs_ack_seq = pkt.ack_seq
        /\ c.rs_end_seq = IF pkt.syn = 1 /\ pkt.ack = 1
                          THEN htonl(Add32(ntohl(pkt.seq), One32))
                          ELSE htonl(AddInt32(ntohl(pkt.seq), PayloadLen(pkt)))

\* C30: with egress segments handled on two cores at once, once the cores
\* are done the stored rs_ack_seq is never before a value it held earlier,
\* and rs_end_seq and rs_ack_seq come from one and the same segment.
C30_ForwardAndOnePair ==
    /\ []((\A core \in Cores : cpu[core] = Idle) /\ cp.rs_ack_seq # BeZero
             => OnePair(cp))
    /\ [][cp.rs_ack_seq # BeZero
             => ~before(ntohl(cp'.rs_ack_seq), ntohl(cp.rs_ack_seq))]_vars

=============================================================================
